---- MODULE Spec2Model ----
(***************************************************************************)
(* State-machine model of contracts/Lottery.sol (Nebula Lottery): series,  *)
(* ticket ledger, purchases, draw and reward distribution, together with   *)
(* the USDT token the contract talks to.                                   *)
(*                                                                         *)
(* Every external function f is modelled twice over the same code: an      *)
(* operator fOutcome(args) that runs the function body on the current      *)
(* state and returns its result ("ok" or the name of the error it reverts  *)
(* with) together with the storage it would commit, and an action f(args)  *)
(* that commits that storage when the result is "ok".  A reverted          *)
(* transaction leaves no trace on chain: it is a step that changes         *)
(* nothing, which every behaviour of Spec may take anyway, so the action   *)
(* is enabled only for the calls that go through, and what a rejected call *)
(* returns and leaves behind is read from fOutcome.                        *)
(*                                                                         *)
(* Token amounts are counted in units of 10^16 base units, so that         *)
(* 0.11 * 10**18 is 11 and 10**18 is 100.                                  *)
(***************************************************************************)
EXTENDS Integers, Sequences, FiniteSets, TLC

(***************************************************************************)
(* Program constants                                                       *)
(***************************************************************************)
TICKETS_PER_SERIES == 100
DRAW_THRESHOLD == 90
WINNING_TICKETS_COUNT == 10
MaxAttempts == 200
TokenUnit == 100
InitialTicketPrice == 11
InitialRewardPerUser == 1

NullAddress == "0x0"
Deployer == "alice"
Lottery == "lottery"

(***************************************************************************)
(* Bounds of the exploration and the inputs the calls are made with        *)
(***************************************************************************)
MaxSeries == 1
MaxPurchases == 1
MaxHashes == 300

\* Every user starts with 10 USDT.
InitialFunds == 10 * TokenUnit

Users == {"alice", "bob"}
Holders == Users \cup {Lottery}
Recipients == {NullAddress, "bob"}
SeriesIdInputs == 0 .. MaxSeries
BuyCounts == {0, 10, 90, 100}
TicketLists == {<<2>>, <<4, 2>>, <<4, 0>>, <<95, 95>>, <<3, 101>>}
Prices == {0}
Amounts == {895}
Seeds == {189, 1189, 7150}
CollidingSeeds == {42}
FailAts == {0, 1, 3}

VARIABLES
    owner,
    usdtBalance,
    ticketPrice,
    ticketsSold,
    totalSeriesCount,
    rewardPerUser,
    seriesInfo,
    ticketBalances,
    ticketOwners,
    ticketSeries,
    ownedTicketIds,
    rewardsDistributed,
    received,
    purchases

ledger == <<owner, ticketPrice, ticketsSold, totalSeriesCount, rewardPerUser,
            seriesInfo, ticketBalances, ticketOwners, ticketSeries,
            ownedTicketIds, rewardsDistributed>>

vars == <<owner, usdtBalance, ticketPrice, ticketsSold, totalSeriesCount,
          rewardPerUser, seriesInfo, ticketBalances, ticketOwners,
          ticketSeries, ownedTicketIds, rewardsDistributed, received,
          purchases>>

(***************************************************************************)
(* Storage helpers                                                         *)
(***************************************************************************)
\* The zero value of struct Series, read from a mapping slot never written.
EmptySeries ==
    [totalTickets |-> 0, ticketsSold |-> 0, winningTicketNumbers |-> << >>,
     drawExecuted |-> FALSE, drawRandomSeed |-> 0]

\* seriesInfo[seriesId]
SeriesAt(seriesId) ==
    IF seriesId \in DOMAIN seriesInfo THEN seriesInfo[seriesId] ELSE EmptySeries

\* A uint256 is kept as its two 128-bit limbs <<high, low>>; the values the
\* contract packs are below 2^128, so a limb never overflows.
Word(x) == <<0, x>>

\* x | y on one limb
RECURSIVE BitOr(_, _)
BitOr(x, y) ==
    IF x = 0 THEN y
    ELSE IF y = 0 THEN x
    ELSE (IF x % 2 = 1 \/ y % 2 = 1 THEN 1 ELSE 0)
         + (2 * BitOr(x \div 2, y \div 2))

\* a | b
Or256(a, b) == <<BitOr(a[1], b[1]), BitOr(a[2], b[2])>>

\* a << 128: the low limb becomes the high one, the old high limb is lost.
ShiftLeft128(a) == <<a[2], 0>>

\* a >> 128
ShiftRight128(a) == <<0, a[1]>>

\* a & ((1 << 128) - 1)
MaskLow128(a) == <<0, a[2]>>

\* Mutant: the series id is shifted by 6 bits only, into the limb of the
\* ticket number.
PackedTicketIdNarrowShift(seriesId, ticketNumber) ==
    Or256(Word(seriesId * 64), Word(ticketNumber))

\* (seriesId << 128) | ticketNumber, bit by bit
PackedTicketId(seriesId, ticketNumber) ==
    Or256(ShiftLeft128(Word(seriesId)), Word(ticketNumber))

\* (seriesId << 128) | ticketNumber as the ledger is keyed with it: the
\* limbs of PackedTicketId(seriesId, ticketNumber), written down directly.
TicketId(seriesId, ticketNumber) == <<seriesId, ticketNumber>>

\* extractSeriesId(ticketId): ticketId >> 128, as a number
ExtractSeriesId(ticketId) == ShiftRight128(ticketId)[2]

\* extractTicketOrdinal(ticketId): ticketId & ticketNumberMask, as a number
ExtractTicketOrdinal(ticketId) == MaskLow128(ticketId)[2]

\* ticketOwners[ticketId]
OwnerOf(ticketId) ==
    IF ticketId \in DOMAIN ticketOwners THEN ticketOwners[ticketId]
    ELSE NullAddress

\* rewardsDistributed[seriesId]
IsDistributed(seriesId) == seriesId \in rewardsDistributed

\* Mutant: only the id 0 is refused.
InvalidSeriesZeroOnly(seriesId) == seriesId = 0

\* seriesId == 0 || seriesId > totalSeriesCount
InvalidSeries(seriesId) == seriesId = 0 \/ seriesId > totalSeriesCount

\* Mutant: the modifier lets every caller through.
NotOwnerUnchecked(caller) == FALSE

\* modifier onlyOwner: msg.sender != owner
NotOwner(caller) == caller # owner

\* The storage and token balances as they are: what a reverted call leaves.
Current ==
    [owner |-> owner, usdtBalance |-> usdtBalance, ticketPrice |-> ticketPrice,
     ticketsSold |-> ticketsSold, totalSeriesCount |-> totalSeriesCount,
     rewardPerUser |-> rewardPerUser, seriesInfo |-> seriesInfo,
     ticketBalances |-> ticketBalances, ticketOwners |-> ticketOwners,
     ticketSeries |-> ticketSeries, ownedTicketIds |-> ownedTicketIds,
     rewardsDistributed |-> rewardsDistributed]

\* The outcome of a call: its result, the storage it commits, the token
\* transfers it made and the ticket ids it minted.
Outcome(result, post, transfers, ticketIds) ==
    [result |-> result, post |-> post, transfers |-> transfers,
     ticketIds |-> ticketIds]

\* revert SomeError(): every write of the call is undone.
Revert(error) == Outcome(error, Current, << >>, << >>)

\* The transaction is mined: its storage and balances become the state.
Commit(out) ==
    /\ owner' = out.post.owner
    /\ usdtBalance' = out.post.usdtBalance
    /\ ticketPrice' = out.post.ticketPrice
    /\ ticketsSold' = out.post.ticketsSold
    /\ totalSeriesCount' = out.post.totalSeriesCount
    /\ rewardPerUser' = out.post.rewardPerUser
    /\ seriesInfo' = out.post.seriesInfo
    /\ ticketBalances' = out.post.ticketBalances
    /\ ticketOwners' = out.post.ticketOwners
    /\ ticketSeries' = out.post.ticketSeries
    /\ ownedTicketIds' = out.post.ownedTicketIds
    /\ rewardsDistributed' = out.post.rewardsDistributed

(***************************************************************************)
(* The USDT token                                                          *)
(***************************************************************************)
\* transfer / transferFrom return true when the token lets the call through
\* (ok) and the sender holds the amount.
CanTransfer(bal, from, amount, ok) == ok /\ bal[from] >= amount

Moved(bal, from, to, amount) ==
    IF from = to THEN bal
    ELSE [bal EXCEPT ![from] = @ - amount, ![to] = @ + amount]

Init ==
    /\ owner = Deployer
    /\ usdtBalance = [h \in Holders |-> IF h = Lottery THEN 0 ELSE InitialFunds]
    /\ ticketPrice = InitialTicketPrice
    /\ ticketsSold = 0
    /\ totalSeriesCount = 0
    /\ rewardPerUser = InitialRewardPerUser
    /\ seriesInfo = << >>
    /\ ticketBalances = [u \in Users |-> 0]
    /\ ticketOwners = << >>
    /\ ticketSeries = << >>
    /\ ownedTicketIds = [u \in Users |-> << >>]
    /\ rewardsDistributed = {}
    /\ received = 0
    /\ purchases = << >>

(***************************************************************************)
(* Owner actions                                                           *)
(***************************************************************************)
\* Mutant: the id of the last series is handed out again.
NewSeriesIdReused == IF totalSeriesCount = 0 THEN 1 ELSE totalSeriesCount

\* totalSeriesCount += 1: the id the new series is stored under
NewSeriesId == totalSeriesCount + 1

GenerateSeriesOutcome(caller) ==
    LET newId == NewSeriesId
    IN  IF NotOwner(caller) THEN Revert("NotOwner")
        ELSE Outcome("ok",
                     [Current EXCEPT
                        !.totalSeriesCount = newId,
                        !.seriesInfo =
                            (newId :> [SeriesAt(newId) EXCEPT
                                          !.totalTickets = TICKETS_PER_SERIES,
                                          !.ticketsSold = 0,
                                          !.drawExecuted = FALSE])
                            @@ seriesInfo],
                     << >>, << >>)

GenerateSeries(caller) ==
    \E out \in {GenerateSeriesOutcome(caller)} :
        /\ out.result = "ok"
        /\ Commit(out)
        /\ UNCHANGED <<received, purchases>>

SetTicketPriceOutcome(caller, newTicketPrice) ==
    IF NotOwner(caller) THEN Revert("NotOwner")
    ELSE Outcome("ok", [Current EXCEPT !.ticketPrice = newTicketPrice],
                 << >>, << >>)

SetTicketPrice(caller, newTicketPrice) ==
    \E out \in {SetTicketPriceOutcome(caller, newTicketPrice)} :
        /\ out.result = "ok"
        /\ Commit(out)
        /\ UNCHANGED <<received, purchases>>

SetRewardOutcome(caller, newReward) ==
    IF NotOwner(caller) THEN Revert("NotOwner")
    ELSE Outcome("ok", [Current EXCEPT !.ticketPrice = newReward], << >>, << >>)

SetReward(caller, newReward) ==
    \E out \in {SetRewardOutcome(caller, newReward)} :
        /\ out.result = "ok"
        /\ Commit(out)
        /\ UNCHANGED <<received, purchases>>

\* Mutant: the new owner is not compared with address(0).
TransferOwnershipUnvalidated(caller, newOwner) ==
    IF NotOwner(caller) THEN Revert("NotOwner")
    ELSE Outcome("ok", [Current EXCEPT !.owner = newOwner], << >>, << >>)

TransferOwnershipOutcome(caller, newOwner) ==
    IF NotOwner(caller) THEN Revert("NotOwner")
    ELSE IF newOwner = NullAddress THEN Revert("InvalidAddress")
    ELSE Outcome("ok", [Current EXCEPT !.owner = newOwner], << >>, << >>)

TransferOwnership(caller, newOwner) ==
    \E out \in {TransferOwnershipOutcome(caller, newOwner)} :
        /\ out.result = "ok"
        /\ Commit(out)
        /\ UNCHANGED <<received, purchases>>

\* Mutant: the value usdt.transfer returns is ignored, so that a transfer
\* the token refuses passes for a withdrawal.
TransferFundsIgnoresResult(caller, to, amount, tokenOk) ==
    IF NotOwner(caller) THEN Revert("NotOwner")
    ELSE IF to = NullAddress THEN Revert("InvalidAddress")
    ELSE Outcome("ok",
                 [Current EXCEPT
                    !.usdtBalance =
                        IF CanTransfer(usdtBalance, Lottery, amount, tokenOk)
                        THEN Moved(usdtBalance, Lottery, to, amount)
                        ELSE usdtBalance],
                 << <<to, amount>> >>, << >>)

TransferFundsOutcome(caller, to, amount, tokenOk) ==
    IF NotOwner(caller) THEN Revert("NotOwner")
    ELSE IF to = NullAddress THEN Revert("InvalidAddress")
    ELSE IF ~CanTransfer(usdtBalance, Lottery, amount, tokenOk)
         THEN Revert("TransferFailed")
    ELSE Outcome("ok",
                 [Current EXCEPT
                    !.usdtBalance = Moved(usdtBalance, Lottery, to, amount)],
                 << <<to, amount>> >>, << >>)

TransferFunds(caller, to, amount, tokenOk) ==
    \E out \in {TransferFundsOutcome(caller, to, amount, tokenOk)} :
        /\ out.result = "ok"
        /\ Commit(out)
        /\ UNCHANGED <<received, purchases>>

(***************************************************************************)
(* Public actions: purchases                                               *)
(***************************************************************************)
\* Mutant: the tickets already sold are not subtracted.
RemainingIgnoresSold(series) == series.totalTickets

\* currentSeries.totalTickets - currentSeries.ticketsSold
Remaining(series) == series.totalTickets - series.ticketsSold

\* Mutant: purchases do not look at drawExecuted.
SalesClosedUnchecked(series) == FALSE

\* Mutant: the sales of a series close when it is sold out.
SalesClosedWhenSoldOut(series) == series.ticketsSold = series.totalTickets

\* Mutant: the sales of a series close when it reaches the draw threshold.
SalesClosedAtThreshold(series) ==
    series.drawExecuted \/ series.ticketsSold >= DRAW_THRESHOLD

\* if (currentSeries.drawExecuted) revert SeriesNotCompleted(seriesId)
SalesClosed(series) == series.drawExecuted

\* Mutant: the owner of the ticket is not looked at before it is written.
AlreadySoldUnchecked(ticketOwner) == FALSE

\* ticketOwners[currentTicketId] != address(0), given the address read
AlreadySold(ticketOwner) == ticketOwner # NullAddress

\* The numbers startNumber .. startNumber + count - 1 that buyTickets assigns.
SequentialNumbers(series, count) ==
    [i \in 1 .. count |-> series.ticketsSold + i]

\* _validateTicketNumbers: the error of the first number that is 0 or above
\* totalTickets, "ok" when there is none.
ValidateTicketNumbers(ticketNumbers, totalTickets) ==
    IF \E i \in 1 .. Len(ticketNumbers) :
           ticketNumbers[i] = 0 \/ ticketNumbers[i] > totalTickets
    THEN "InvalidTicketNumber"
    ELSE "ok"

\* The entries of ticketNumbers that repeat the number of an earlier entry.
Repeats(ticketNumbers) ==
    LET count == Len(ticketNumbers)
    IN  IF Cardinality({ticketNumbers[i] : i \in 1 .. count}) = count THEN {}
        ELSE {i \in 1 .. count :
                \E j \in 1 .. (i - 1) : ticketNumbers[j] = ticketNumbers[i]}

\* Mutant: the owner is read as it was before the call, so that the writes
\* of earlier entries of the same call are not seen.
OwnerBeforeCall(buyer, seriesId, ticketNumbers, i, repeats) ==
    OwnerOf(TicketId(seriesId, ticketNumbers[i]))

\* ticketOwners[currentTicketId] as the loop of _mintTickets reads it when it
\* reaches ticketNumbers[i]: an earlier entry of the same call with the same
\* number (i in repeats) has already written the buyer there.
OwnerDuringMint(buyer, seriesId, ticketNumbers, i, repeats) ==
    IF i \in repeats THEN buyer
    ELSE OwnerOf(TicketId(seriesId, ticketNumbers[i]))

\* Mutant: _mintTickets checks the range of the number only.
MintErrorAtRangeOnly(buyer, seriesId, totalTicketsInSeries, ticketNumbers, i, repeats) ==
    IF ticketNumbers[i] = 0 \/ ticketNumbers[i] > totalTicketsInSeries
    THEN "InvalidTicketNumber"
    ELSE "ok"

\* The error, if any, that _mintTickets raises at ticketNumbers[i].
MintErrorAt(buyer, seriesId, totalTicketsInSeries, ticketNumbers, i, repeats) ==
    IF ticketNumbers[i] = 0 \/ ticketNumbers[i] > totalTicketsInSeries
    THEN "InvalidTicketNumber"
    ELSE IF AlreadySold(OwnerDuringMint(buyer, seriesId, ticketNumbers, i, repeats))
    THEN "TicketAlreadySold"
    ELSE "ok"

\* The error _mintTickets stops at: that of the first entry its loop
\* refuses, "ok" when it refuses none.  The loop is run entry by entry only
\* for a list that has a repeated number or a number that has an owner.
MintError(buyer, seriesId, totalTicketsInSeries, ticketNumbers) ==
    LET count == Len(ticketNumbers)
        repeats == Repeats(ticketNumbers)
        untouched ==
            /\ repeats = {}
            /\ {TicketId(seriesId, ticketNumbers[i]) : i \in 1 .. count}
                  \cap DOMAIN ticketOwners = {}
        failing == {i \in 1 .. count :
                      MintErrorAt(buyer, seriesId, totalTicketsInSeries,
                                  ticketNumbers, i, repeats) # "ok"}
        first == CHOOSE i \in failing : \A j \in failing : i <= j
    IN  IF untouched
        THEN IF \E i \in 1 .. count :
                    ticketNumbers[i] = 0 \/ ticketNumbers[i] > totalTicketsInSeries
             THEN "InvalidTicketNumber"
             ELSE "ok"
        ELSE IF failing # {}
        THEN MintErrorAt(buyer, seriesId, totalTicketsInSeries, ticketNumbers,
                         first, repeats)
        ELSE "ok"

\* Mutant: the buyer's list is replaced by the ids of the purchase.
PushedOverwrites(owned, ticketIds) == ticketIds

\* ownedTicketIds[buyer].push(currentTicketId), for every id of the purchase
Pushed(owned, ticketIds) == owned \o ticketIds

\* _mintTickets: the loop stops at the first entry that raises an error;
\* without one it has written every entry.
MintTickets(buyer, seriesId, totalTicketsInSeries, ticketNumbers) ==
    LET count == Len(ticketNumbers)
        ticketIds == [i \in 1 .. count |-> TicketId(seriesId, ticketNumbers[i])]
        minted == {ticketIds[i] : i \in 1 .. count}
        error == MintError(buyer, seriesId, totalTicketsInSeries, ticketNumbers)
    IN  IF error # "ok"
        THEN [error |-> error,
              owners |-> ticketOwners, series |-> ticketSeries,
              owned |-> ownedTicketIds[buyer], ticketIds |-> << >>]
        ELSE [error |-> "ok",
              owners |-> [id \in minted |-> buyer] @@ ticketOwners,
              series |-> [id \in minted |-> seriesId] @@ ticketSeries,
              owned |-> Pushed(ownedTicketIds[buyer], ticketIds),
              ticketIds |-> ticketIds]

\* Mutant: the value transferFrom returns is ignored.
ChargeFailedIgnored(buyer, totalCost, tokenOk) == FALSE

\* if (!usdt.transferFrom(buyer, address(this), totalCost)) revert TransferFailed()
ChargeFailed(buyer, totalCost, tokenOk) ==
    ~CanTransfer(usdtBalance, buyer, totalCost, tokenOk)

\* Mutant: the series counts the purchase, not its tickets.
SoldAfterCountsCalls(sold, count) == sold + 1

\* series.ticketsSold += count
SoldAfter(sold, count) == sold + count

\* Mutant: a purchase is charged the price of one ticket.
TotalCostOfOne(count) == ticketPrice

\* uint256 totalCost = ticketPrice * count
TotalCost(count) == ticketPrice * count

\* Mutant: the global counter is advanced by one for every purchase.
TotalSoldAfterCountsCalls(sold, count) == sold + 1

\* ticketsSold += count
TotalSoldAfter(sold, count) == sold + count

\* _completePurchase
CompletePurchase(buyer, seriesId, series, ticketNumbers, tokenOk) ==
    LET count == Len(ticketNumbers)
        totalCost == TotalCost(count)
        error == MintError(buyer, seriesId, series.totalTickets, ticketNumbers)
        minted == MintTickets(buyer, seriesId, series.totalTickets, ticketNumbers)
        paid == totalCost > 0 /\ CanTransfer(usdtBalance, buyer, totalCost, tokenOk)
    IN  IF error # "ok" THEN Revert(error)
        ELSE IF totalCost > 0 /\ ChargeFailed(buyer, totalCost, tokenOk)
             THEN Revert("TransferFailed")
        ELSE Outcome("ok",
                     [Current EXCEPT
                        !.ticketOwners = minted.owners,
                        !.ticketSeries = minted.series,
                        !.ownedTicketIds[buyer] = minted.owned,
                        !.seriesInfo[seriesId].ticketsSold = SoldAfter(@, count),
                        !.ticketsSold = TotalSoldAfter(@, count),
                        !.ticketBalances[buyer] = @ + count,
                        !.usdtBalance =
                            IF paid
                            THEN Moved(usdtBalance, buyer, Lottery, totalCost)
                            ELSE usdtBalance],
                     IF paid THEN << <<Lottery, totalCost>> >> ELSE << >>,
                     minted.ticketIds)

BuyTicketsOutcome(caller, seriesId, count, tokenOk) ==
    LET currentSeries == SeriesAt(seriesId)
    IN  IF count = 0 THEN Revert("InvalidTicketCount")
        ELSE IF InvalidSeries(seriesId) THEN Revert("InvalidSeriesId")
        ELSE IF SalesClosed(currentSeries) THEN Revert("SeriesNotCompleted")
        ELSE IF count > Remaining(currentSeries)
             THEN Revert("InsufficientTickets")
        ELSE CompletePurchase(caller, seriesId, currentSeries,
                              SequentialNumbers(currentSeries, count), tokenOk)

BuyTicketsAtOutcome(caller, seriesId, ticketNumbers, tokenOk) ==
    LET count == Len(ticketNumbers)
        currentSeries == SeriesAt(seriesId)
        validated == ValidateTicketNumbers(ticketNumbers,
                                           currentSeries.totalTickets)
    IN  IF count = 0 THEN Revert("InvalidTicketCount")
        ELSE IF InvalidSeries(seriesId) THEN Revert("InvalidSeriesId")
        ELSE IF SalesClosed(currentSeries) THEN Revert("SeriesNotCompleted")
        ELSE IF count > Remaining(currentSeries)
             THEN Revert("InsufficientTickets")
        ELSE IF validated # "ok" THEN Revert(validated)
        ELSE CompletePurchase(caller, seriesId, currentSeries, ticketNumbers,
                              tokenOk)

\* A purchase is mined; the history of committed purchases and of the tokens
\* that reached the contract through them is kept beside the contract.
Purchase(out, buyer, seriesId, count) ==
    /\ out.result = "ok"
    /\ Commit(out)
    /\ received' = received
                   + (out.post.usdtBalance[Lottery] - usdtBalance[Lottery])
    /\ purchases' = Append(purchases,
                           [buyer |-> buyer, seriesId |-> seriesId,
                            count |-> count,
                            totalCost |-> ticketPrice * count])

BuyTickets(caller, seriesId, count, tokenOk) ==
    \E out \in {BuyTicketsOutcome(caller, seriesId, count, tokenOk)} :
        Purchase(out, caller, seriesId, count)

BuyTicketsAt(caller, seriesId, ticketNumbers, tokenOk) ==
    \E out \in {BuyTicketsAtOutcome(caller, seriesId, ticketNumbers, tokenOk)} :
        Purchase(out, caller, seriesId, Len(ticketNumbers))

\* Mutant: readiness asks for more than the threshold.
ReadyForDrawAboveThreshold(series) ==
    series.ticketsSold > DRAW_THRESHOLD /\ ~series.drawExecuted

\* getSeriesInfo(seriesId)
ReadyForDraw(series) ==
    series.ticketsSold >= DRAW_THRESHOLD /\ ~series.drawExecuted

GetSeriesInfo(seriesId) ==
    LET currentSeries == SeriesAt(seriesId)
    IN  [totalTickets |-> currentSeries.totalTickets,
         soldCount |-> currentSeries.ticketsSold,
         drawExecuted |-> currentSeries.drawExecuted,
         readyForDraw |-> ReadyForDraw(currentSeries),
         winningTicketNumbers |-> currentSeries.winningTicketNumbers]

\* getOwnedTicketIds(account)
GetOwnedTicketIds(account) == ownedTicketIds[account]

(***************************************************************************)
(* Draw                                                                    *)
(***************************************************************************)
\* Mutant: the comparison with the threshold is the wrong way round.
NotEnoughTicketsSoldReversed(series) == series.ticketsSold > DRAW_THRESHOLD

\* if (currentSeries.ticketsSold < DRAW_THRESHOLD) revert NotEnoughTicketsSold
NotEnoughTicketsSold(series) == series.ticketsSold < DRAW_THRESHOLD

\* Mutant: executeDraw does not look at drawExecuted.
DrawAlreadyExecutedUnchecked(series) == FALSE

\* if (currentSeries.drawExecuted) revert DrawAlreadyExecuted
DrawAlreadyExecuted(series) == series.drawExecuted

\* keccak256 as _generateWinningNumbers uses it: seed = keccak256(seed, ...)
\* is a chain started at randomSeed, and count and attempts are themselves
\* fixed by the earlier links, so the k-th link is a function of randomSeed,
\* soldCount and k.  Digest stands for that function; its values are spread
\* over 0 .. HashSpace - 1.
HashSpace == 1000 * TICKETS_PER_SERIES

Digest(randomSeed, soldCount, k) ==
    (randomSeed + ((randomSeed \div 100) * k)
       + ((randomSeed \div 1000) * ((k * k) + soldCount))) % HashSpace

\* (seed % TICKETS_PER_SERIES) + 1 for the k-th seed of the chain
TicketNumberAt(randomSeed, soldCount, k) ==
    (Digest(randomSeed, soldCount, k) % TICKETS_PER_SERIES) + 1

\* Mutant: the used table is never consulted.
IsUsedNever(used, ticketNumber) == FALSE

\* used[ticketNumber]
IsUsed(used, ticketNumber) == ticketNumber \in used

\* used[ticketNumber] = true; winningNumbers[count] = ticketNumber; count++
Select(g, ticketNumber) ==
    [g EXCEPT !.used = @ \cup {ticketNumber},
              !.winningNumbers = Append(@, ticketNumber),
              !.count = @ + 1]

\* The inner retry loop, entered with the ticket number the outer round
\* ended on: up to MaxAttempts further links of the chain, stopping at the
\* first whose number is not used.  g.exhaustedAt keeps the number of hashes
\* computed when the loop first gave up after MaxAttempts attempts (0 while
\* it never has).
Retry(g, randomSeed, soldCount, ticketNumber) ==
    LET attemptsLeft == IF g.k + MaxAttempts <= MaxHashes THEN MaxAttempts
                        ELSE MaxHashes + 1 - g.k
        Fresh(a) == ~IsUsed(g.used, TicketNumberAt(randomSeed, soldCount, g.k + a + 1))
        found == \E a \in 0 .. (attemptsLeft - 1) : Fresh(a)
        hit == CHOOSE a \in 0 .. (attemptsLeft - 1) :
                  Fresh(a) /\ \A b \in 0 .. (a - 1) : ~Fresh(b)
    IN  IF ~IsUsed(g.used, ticketNumber) THEN g
        ELSE IF ~found
             THEN [g EXCEPT !.k = @ + attemptsLeft,
                            !.exhaustedAt =
                                IF @ = 0 /\ attemptsLeft = MaxAttempts
                                THEN g.k + attemptsLeft
                                ELSE @]
        ELSE Select([g EXCEPT !.k = @ + hit + 1],
                    TicketNumberAt(randomSeed, soldCount, g.k + hit + 1))

\* One round of while (count < WINNING_TICKETS_COUNT), and the rounds after
\* it; g.k counts the hashes computed so far, and the call runs out of gas
\* once it has computed more than MaxHashes of them.
RECURSIVE GenerateFrom(_, _, _)
GenerateFrom(g, randomSeed, soldCount) ==
    IF g.count >= WINNING_TICKETS_COUNT \/ g.k >= MaxHashes THEN g
    ELSE LET ticketNumber == TicketNumberAt(randomSeed, soldCount, g.k + 1)
             hashed == [g EXCEPT !.k = @ + 1]
             picked == IF ~IsUsed(g.used, ticketNumber)
                       THEN Select(hashed, ticketNumber)
                       ELSE hashed
         IN  IF picked.count < WINNING_TICKETS_COUNT
             THEN GenerateFrom(Retry(picked, randomSeed, soldCount, ticketNumber),
                               randomSeed, soldCount)
             ELSE picked

\* _generateWinningNumbers(randomSeed, soldCount)
GenerateWinningNumbers(randomSeed, soldCount) ==
    GenerateFrom([count |-> 0, k |-> 0, used |-> {}, winningNumbers |-> << >>,
                  exhaustedAt |-> 0],
                 randomSeed, soldCount)

\* Mutant: the draw also marks the series as settled.
ExecuteDrawOutcomeSettles(caller, seriesId, randomSeed) ==
    LET currentSeries == SeriesAt(seriesId)
        generated == GenerateWinningNumbers(randomSeed, currentSeries.ticketsSold)
    IN  IF NotOwner(caller) THEN Revert("NotOwner")
        ELSE IF InvalidSeries(seriesId) THEN Revert("InvalidSeriesId")
        ELSE IF NotEnoughTicketsSold(currentSeries)
             THEN Revert("NotEnoughTicketsSold")
        ELSE IF DrawAlreadyExecuted(currentSeries)
             THEN Revert("DrawAlreadyExecuted")
        ELSE IF generated.count < WINNING_TICKETS_COUNT THEN Revert("OutOfGas")
        ELSE Outcome("ok",
                     [Current EXCEPT
                        !.seriesInfo[seriesId].drawRandomSeed = randomSeed,
                        !.seriesInfo[seriesId].winningTicketNumbers =
                            generated.winningNumbers,
                        !.seriesInfo[seriesId].drawExecuted = TRUE,
                        !.rewardsDistributed = @ \cup {seriesId}],
                     << >>, << >>)

ExecuteDrawOutcome(caller, seriesId, randomSeed) ==
    LET currentSeries == SeriesAt(seriesId)
        generated == GenerateWinningNumbers(randomSeed, currentSeries.ticketsSold)
    IN  IF NotOwner(caller) THEN Revert("NotOwner")
        ELSE IF InvalidSeries(seriesId) THEN Revert("InvalidSeriesId")
        ELSE IF NotEnoughTicketsSold(currentSeries)
             THEN Revert("NotEnoughTicketsSold")
        ELSE IF DrawAlreadyExecuted(currentSeries)
             THEN Revert("DrawAlreadyExecuted")
        ELSE IF generated.count < WINNING_TICKETS_COUNT THEN Revert("OutOfGas")
        ELSE Outcome("ok",
                     [Current EXCEPT
                        !.seriesInfo[seriesId].drawRandomSeed = randomSeed,
                        !.seriesInfo[seriesId].winningTicketNumbers =
                            generated.winningNumbers,
                        !.seriesInfo[seriesId].drawExecuted = TRUE],
                     << >>, << >>)

ExecuteDraw(caller, seriesId, randomSeed) ==
    \E out \in {ExecuteDrawOutcome(caller, seriesId, randomSeed)} :
        /\ out.result = "ok"
        /\ Commit(out)
        /\ UNCHANGED <<received, purchases>>

(***************************************************************************)
(* Reward distribution                                                     *)
(***************************************************************************)
\* Mutant: distributeRewards does not look at drawExecuted.
DrawNotExecutedUnchecked(series) == FALSE

\* if (!currentSeries.drawExecuted) revert DrawNotExecuted
DrawNotExecuted(series) == ~series.drawExecuted

\* Mutant: distributeRewards does not look at rewardsDistributed.
RewardsAlreadyDistributedUnchecked(seriesId) == FALSE

\* if (rewardsDistributed[seriesId]) revert RewardsAlreadyDistributed
RewardsAlreadyDistributed(seriesId) == IsDistributed(seriesId)

\* The owners of the winning tickets that have one, in the order of the
\* winning numbers: winners[0 .. winnersCount - 1].
FindWinners(seriesId, winningTicketNumbers) ==
    LET Sold(winningTicketNumber) ==
            OwnerOf(TicketId(seriesId, winningTicketNumber)) # NullAddress
        sold == SelectSeq(winningTicketNumbers, Sold)
    IN  [i \in 1 .. Len(sold) |-> OwnerOf(TicketId(seriesId, sold[i]))]

\* The reward loop from winners[i] on: p carries the balances, the transfers
\* made so far and whether one of them failed; failAt is the transfer the
\* token refuses (0 for none).
RECURSIVE PayFrom(_, _, _, _, _)
PayFrom(p, winners, i, rewardPerWinner, failAt) ==
    IF i > Len(winners) \/ ~p.ok THEN p
    ELSE IF winners[i] # NullAddress /\ rewardPerWinner > 0
         THEN IF CanTransfer(p.bal, Lottery, rewardPerWinner,
                             Len(p.transfers) + 1 # failAt)
              THEN PayFrom([ok |-> TRUE,
                            bal |-> Moved(p.bal, Lottery, winners[i], rewardPerWinner),
                            transfers |-> Append(p.transfers,
                                                 <<winners[i], rewardPerWinner>>)],
                           winners, i + 1, rewardPerWinner, failAt)
              ELSE [p EXCEPT !.ok = FALSE]
         ELSE PayFrom(p, winners, i + 1, rewardPerWinner, failAt)

\* Mutant: the fixed reward is paid whatever the contract holds.
RewardPerWinnerFixed(series) == rewardPerUser * TokenUnit

\* Mutant: the winners share the pool, or what the contract holds of it.
RewardPerWinnerFromPool(series) ==
    LET totalRewardPool == series.ticketsSold * ticketPrice
        contractBalance == usdtBalance[Lottery]
    IN  IF contractBalance < totalRewardPool
        THEN contractBalance \div WINNING_TICKETS_COUNT
        ELSE totalRewardPool \div WINNING_TICKETS_COUNT

\* rewardPerWinner as distributeRewards settles it from the pool and the
\* contract's balance.
RewardPerWinner(series) ==
    LET totalRewardPool == series.ticketsSold * ticketPrice
        contractBalance == usdtBalance[Lottery]
    IN  IF contractBalance < totalRewardPool
        THEN contractBalance \div WINNING_TICKETS_COUNT
        ELSE rewardPerUser * TokenUnit

\* Mutant: the value usdt.transfer returns is ignored.
RewardTransferFailedIgnored(paid) == FALSE

\* if (!usdt.transfer(winners[i], rewardPerWinner)) revert TransferFailed()
RewardTransferFailed(paid) == ~paid.ok

DistributeRewardsOutcome(caller, seriesId, failAt) ==
    LET currentSeries == SeriesAt(seriesId)
        winners == FindWinners(seriesId, currentSeries.winningTicketNumbers)
        rewardPerWinner == RewardPerWinner(currentSeries)
        paid == PayFrom([ok |-> TRUE, bal |-> usdtBalance, transfers |-> << >>],
                        winners, 1, rewardPerWinner, failAt)
    IN  IF NotOwner(caller) THEN Revert("NotOwner")
        ELSE IF InvalidSeries(seriesId) THEN Revert("InvalidSeriesId")
        ELSE IF DrawNotExecuted(currentSeries) THEN Revert("DrawNotExecuted")
        ELSE IF RewardsAlreadyDistributed(seriesId)
             THEN Revert("RewardsAlreadyDistributed")
        ELSE IF Len(winners) = 0 THEN Revert("InsufficientWinners")
        ELSE IF RewardTransferFailed(paid) THEN Revert("TransferFailed")
        ELSE Outcome("ok",
                     [Current EXCEPT
                        !.usdtBalance = paid.bal,
                        !.rewardsDistributed = @ \cup {seriesId}],
                     paid.transfers, << >>)

\* Mutant: the winners are listed as they were found, without the
\* duplicates being dropped.
GetUniqueAddressesKeepsAll(addresses, length) == SubSeq(addresses, 1, length)

\* The loop of _getUniqueAddresses from addresses[i] on; temp holds the
\* addresses kept so far.
RECURSIVE UniqueFrom(_, _, _, _)
UniqueFrom(temp, addresses, length, i) ==
    IF i > length THEN temp
    ELSE LET isUnique == \A j \in 1 .. Len(temp) : temp[j] # addresses[i]
         IN  IF isUnique /\ addresses[i] # NullAddress
             THEN UniqueFrom(Append(temp, addresses[i]), addresses, length, i + 1)
             ELSE UniqueFrom(temp, addresses, length, i + 1)

\* _getUniqueAddresses(addresses, length)
GetUniqueAddresses(addresses, length) ==
    UniqueFrom(<< >>, addresses, length, 1)

\* emit RewardsDistributed(seriesId, uniqueWinners, rewardPerWinner,
\* rewardPerWinner * winnersCount): the event of a distribution of seriesId
\* that goes through in the current state.
RewardsDistributedEvent(seriesId) ==
    LET currentSeries == SeriesAt(seriesId)
        winners == FindWinners(seriesId, currentSeries.winningTicketNumbers)
        winnersCount == Len(winners)
        rewardPerWinner == RewardPerWinner(currentSeries)
    IN  [seriesId |-> seriesId,
         winners |-> GetUniqueAddresses(winners, winnersCount),
         rewardPerWinner |-> rewardPerWinner,
         totalAmount |-> rewardPerWinner * winnersCount]

DistributeRewards(caller, seriesId, failAt) ==
    \E out \in {DistributeRewardsOutcome(caller, seriesId, failAt)} :
        /\ out.result = "ok"
        /\ Commit(out)
        /\ UNCHANGED <<received, purchases>>

Next ==
    \/ /\ totalSeriesCount < MaxSeries
       /\ \E caller \in Users : GenerateSeries(caller)
    \/ \E caller \in Users, newTicketPrice \in Prices :
          SetTicketPrice(caller, newTicketPrice)
    \/ \E caller \in Users, newReward \in Prices : SetReward(caller, newReward)
    \/ \E caller \in Users, newOwner \in Users \cup {NullAddress} :
          TransferOwnership(caller, newOwner)
    \/ \E caller \in Users, to \in Recipients,
          amount \in Amounts \cup {usdtBalance[Lottery], usdtBalance[Lottery] + 1},
          tokenOk \in BOOLEAN :
          TransferFunds(caller, to, amount, tokenOk)
    \/ /\ Len(purchases) < MaxPurchases
       /\ \E caller \in Users, seriesId \in SeriesIdInputs, count \in BuyCounts,
             tokenOk \in BOOLEAN :
             BuyTickets(caller, seriesId, count, tokenOk)
    \/ /\ Len(purchases) < MaxPurchases
       /\ \E caller \in Users, seriesId \in SeriesIdInputs,
             ticketNumbers \in TicketLists, tokenOk \in BOOLEAN :
             BuyTicketsAt(caller, seriesId, ticketNumbers, tokenOk)
    \/ \E caller \in Users, seriesId \in SeriesIdInputs,
          randomSeed \in Seeds \cup CollidingSeeds :
          ExecuteDraw(caller, seriesId, randomSeed)
    \/ \E caller \in Users, seriesId \in SeriesIdInputs, failAt \in FailAts :
          DistributeRewards(caller, seriesId, failAt)

Spec == Init /\ [][Next]_vars

\* The contract with one series and one purchase more, and its
\* configuration left as it was deployed: the owner sets again the price in
\* force and hands the ownership to itself, and bob is the buyer.
WideSeriesIdInputs == 1 .. (MaxSeries + 1)
WideBuyCounts == {10, 90}
WideTicketLists == {<<2>>, <<95, 96>>}
WideSeeds == {189, 1189}

NextSeries ==
    \/ /\ totalSeriesCount < MaxSeries + 1
       /\ GenerateSeries(owner)
    \/ SetTicketPrice(owner, ticketPrice)
    \/ SetReward(owner, ticketPrice)
    \/ TransferOwnership(owner, owner)
    \/ TransferFunds(owner, "bob", usdtBalance[Lottery], TRUE)
    \/ /\ Len(purchases) < MaxPurchases + 1
       /\ \E seriesId \in WideSeriesIdInputs, count \in WideBuyCounts :
             BuyTickets("bob", seriesId, count, TRUE)
    \/ /\ Len(purchases) < MaxPurchases + 1
       /\ \E seriesId \in WideSeriesIdInputs, ticketNumbers \in WideTicketLists :
             BuyTicketsAt("bob", seriesId, ticketNumbers, TRUE)
    \/ \E seriesId \in WideSeriesIdInputs, randomSeed \in WideSeeds :
          ExecuteDraw(owner, seriesId, randomSeed)
    \/ \E seriesId \in WideSeriesIdInputs :
          DistributeRewards(owner, seriesId, 0)

SpecSeries == Init /\ [][NextSeries]_vars

\* The contract at the price it was deployed with, sold to both users over
\* one series and one purchase more: the calls that fill the escrow and the
\* calls that empty it.  With 90 tickets sold, the seed 100 draws the
\* numbers 2 .. 11, all of them sold, and the seed 1189 draws 9 sold numbers.
PoolSeeds == {100, 1189}

NextFunds ==
    \/ /\ totalSeriesCount < MaxSeries + 1
       /\ GenerateSeries(owner)
    \/ /\ Len(purchases) < MaxPurchases + 1
       /\ \E caller \in Users, seriesId \in WideSeriesIdInputs,
             count \in WideBuyCounts :
             BuyTickets(caller, seriesId, count, TRUE)
    \/ \E seriesId \in WideSeriesIdInputs, randomSeed \in PoolSeeds :
          ExecuteDraw(owner, seriesId, randomSeed)
    \/ \E seriesId \in WideSeriesIdInputs :
          DistributeRewards(owner, seriesId, 0)
    \/ TransferFunds(owner, "bob", usdtBalance[Lottery], TRUE)

SpecFunds == Init /\ [][NextFunds]_vars

(***************************************************************************)
(* Properties                                                              *)
(***************************************************************************)
SeriesIds == 1 .. totalSeriesCount

RECURSIVE SumOver(_, _)
SumOver(seq, field) ==
    IF seq = << >> THEN 0 ELSE Head(seq)[field] + SumOver(Tail(seq), field)

\* A call is rejected: it reverts, so nothing of the storage or of the token
\* balances changes and no token moves.
Rejected(out) ==
    /\ out.result # "ok"
    /\ out.post = Current
    /\ out.transfers = << >>
    /\ out.ticketIds = << >>

\* The ticket ids of series seriesId that have an owner.
SoldIds(seriesId) == {id \in DOMAIN ticketOwners : id[1] = seriesId}

\* The capacity of every series, and what a purchase that asks for more than
\* is left of it returns.
SoldWithinCapacity ==
    /\ \A s \in SeriesIds :
          /\ seriesInfo[s].totalTickets = TICKETS_PER_SERIES
          /\ 0 <= seriesInfo[s].ticketsSold
          /\ seriesInfo[s].ticketsSold <= seriesInfo[s].totalTickets
    /\ \A s \in SeriesIds, caller \in Users, tokenOk \in BOOLEAN :
          /\ \A count \in BuyCounts :
                count > seriesInfo[s].totalTickets - seriesInfo[s].ticketsSold
                => LET out == BuyTicketsOutcome(caller, s, count, tokenOk)
                   IN  /\ Rejected(out)
                       /\ ~seriesInfo[s].drawExecuted
                          => out.result = "InsufficientTickets"
          /\ \A ticketNumbers \in TicketLists :
                Len(ticketNumbers)
                    > seriesInfo[s].totalTickets - seriesInfo[s].ticketsSold
                => LET out == BuyTicketsAtOutcome(caller, s, ticketNumbers, tokenOk)
                   IN  /\ Rejected(out)
                       /\ ~seriesInfo[s].drawExecuted
                          => out.result = "InsufficientTickets"

\* C1: for every series 0 <= ticketsSold <= totalTickets = 100, and a
\* buyTickets or buyTicketsAt call asking for more tickets than
\* totalTickets - ticketsSold is rejected (with InsufficientTickets when the
\* series is still on sale), leaving ticketsSold, owners and balances as
\* they were.
C1_SoldWithinCapacity == []SoldWithinCapacity

\* C1 witness: a series with 90 tickets sold, where buying 90 more is
\* refused for lack of tickets.
C1_Witness ==
    \E s \in SeriesIds :
        /\ seriesInfo[s].ticketsSold = 90
        /\ BuyTicketsOutcome("bob", s, 90, TRUE).result = "InsufficientTickets"

\* No ticket id is listed twice, every listed id belongs to the lister, and
\* as many ids have an owner as tickets were sold.
MintedOnce ==
    /\ \A u \in Users :
          /\ \A i \in DOMAIN ownedTicketIds[u] :
                OwnerOf(ownedTicketIds[u][i]) = u
          /\ Cardinality({ownedTicketIds[u][i] : i \in DOMAIN ownedTicketIds[u]})
                = Len(ownedTicketIds[u])
    /\ Cardinality(DOMAIN ticketOwners) = ticketsSold
    /\ \A id \in DOMAIN ticketOwners : ticketOwners[id] # NullAddress

\* A purchase that would mint an id that already has an owner fails.
MintConflictFails ==
    \A s \in SeriesIds, caller \in Users, tokenOk \in BOOLEAN :
        /\ \A count \in BuyCounts :
              (\E n \in (seriesInfo[s].ticketsSold + 1)
                          .. (seriesInfo[s].ticketsSold + count) :
                   OwnerOf(TicketId(s, n)) # NullAddress)
              => Rejected(BuyTicketsOutcome(caller, s, count, tokenOk))
        /\ \A ticketNumbers \in TicketLists :
              (\/ \E i \in DOMAIN ticketNumbers :
                     OwnerOf(TicketId(s, ticketNumbers[i])) # NullAddress
               \/ \E i, j \in DOMAIN ticketNumbers :
                     i # j /\ ticketNumbers[i] = ticketNumbers[j])
              => Rejected(BuyTicketsAtOutcome(caller, s, ticketNumbers, tokenOk))

\* An owner, once set, is never changed or cleared.
OwnerKept ==
    \/ ticketOwners' = ticketOwners
    \/ \A id \in DOMAIN ticketOwners :
          id \in DOMAIN ticketOwners' /\ ticketOwners'[id] = ticketOwners[id]

\* C2: every ticket identity is minted at most once: an owner, once set, is
\* never changed or cleared by any later operation, and a purchase that
\* would mint an already-owned identity fails as a whole.
C2_MintedAtMostOnce ==
    /\ [](MintedOnce /\ MintConflictFails)
    /\ [][OwnerKept]_vars

\* C2 witness: ticket 2 of a series is owned, and the sequential purchase
\* that would mint it again is refused with TicketAlreadySold.
C2_Witness ==
    \E s \in SeriesIds :
        /\ OwnerOf(TicketId(s, 2)) # NullAddress
        /\ seriesInfo[s].ticketsSold = 1
        /\ BuyTicketsOutcome("bob", s, 10, TRUE).result = "TicketAlreadySold"

\* The transferFrom of a purchase of count tickets by caller fails.
ChargeWouldFail(caller, count, tokenOk) ==
    /\ ticketPrice * count > 0
    /\ ~tokenOk \/ usdtBalance[caller] < ticketPrice * count

\* What a purchase whose charge fails returns, and the ledger against the
\* history of the committed purchases.
PurchaseAtomicWithPayment ==
    /\ \A s \in SeriesIds, caller \in Users, tokenOk \in BOOLEAN :
          /\ \A count \in BuyCounts :
                ChargeWouldFail(caller, count, tokenOk)
                => Rejected(BuyTicketsOutcome(caller, s, count, tokenOk))
          /\ \A ticketNumbers \in TicketLists :
                ChargeWouldFail(caller, Len(ticketNumbers), tokenOk)
                => Rejected(BuyTicketsAtOutcome(caller, s, ticketNumbers, tokenOk))
    /\ received = SumOver(purchases, "totalCost")
    /\ Cardinality(DOMAIN ticketOwners) = SumOver(purchases, "count")

\* C3: a purchase is all-or-nothing with its payment: when the transferFrom
\* of ticketPrice * count fails nothing is minted and no counter, balance or
\* owner list changes; the tickets that have an owner are exactly those of
\* the committed purchases, and the contract received the cost of each.
C3_PurchaseAtomicWithPayment == []PurchaseAtomicWithPayment

\* C3 witness: bob has paid for 90 tickets and cannot pay for more: the
\* purchase of a further ticket fails on the transfer.
C3_Witness ==
    \E s \in SeriesIds :
        /\ received = 90 * InitialTicketPrice
        /\ ticketBalances["bob"] = 90
        /\ BuyTicketsAtOutcome("bob", s, <<95>>, TRUE).result = "TransferFailed"

\* Every purchase naming a drawn series is refused.
ClosedAfterDraw ==
    \A s \in SeriesIds, caller \in Users, tokenOk \in BOOLEAN :
        seriesInfo[s].drawExecuted
        => /\ \A count \in BuyCounts :
                 LET out == BuyTicketsOutcome(caller, s, count, tokenOk)
                 IN  /\ Rejected(out)
                     /\ count > 0 => out.result = "SeriesNotCompleted"
           /\ \A ticketNumbers \in TicketLists :
                 LET out == BuyTicketsAtOutcome(caller, s, ticketNumbers, tokenOk)
                 IN  /\ Rejected(out)
                     /\ out.result = "SeriesNotCompleted"

\* The sales of a drawn series are frozen.
SalesFrozenAfterDraw ==
    \A s \in SeriesIds :
        seriesInfo[s].drawExecuted
        => /\ seriesInfo'[s].ticketsSold = seriesInfo[s].ticketsSold
           /\ \/ ticketOwners' = ticketOwners
              \/ /\ SoldIds(s)' = SoldIds(s)
                 /\ \A id \in SoldIds(s) : ticketOwners'[id] = ticketOwners[id]

\* C4: once drawExecuted is true for a series every later buyTickets or
\* buyTicketsAt call naming it is rejected, so its ticketsSold and its owned
\* tickets never change after the draw.
C4_NoPurchaseAfterDraw ==
    /\ []ClosedAfterDraw
    /\ [][SalesFrozenAfterDraw]_vars

\* C4 witness: a drawn series with tickets left, where a purchase that the
\* remaining capacity would allow is refused because of the draw.
C4_Witness ==
    \E s \in SeriesIds :
        /\ seriesInfo[s].drawExecuted
        /\ seriesInfo[s].ticketsSold = 90
        /\ BuyTicketsOutcome("alice", s, 10, TRUE).result = "SeriesNotCompleted"

\* executeDraw on a drawn series is refused, whoever calls and whatever the
\* block data.
SecondDrawFails ==
    \A s \in SeriesIds, caller \in Users, randomSeed \in Seeds :
        seriesInfo[s].drawExecuted
        => LET out == ExecuteDrawOutcome(caller, s, randomSeed)
           IN  /\ Rejected(out)
               /\ caller = owner => out.result = "DrawAlreadyExecuted"

\* The committed draw of a series stays as it is.
DrawKept ==
    \A s \in SeriesIds :
        seriesInfo[s].drawExecuted
        => /\ seriesInfo'[s].drawExecuted
           /\ seriesInfo'[s].winningTicketNumbers
                 = seriesInfo[s].winningTicketNumbers
           /\ seriesInfo'[s].drawRandomSeed = seriesInfo[s].drawRandomSeed

\* C5: executeDraw is one-shot per series: a second call on a drawn series
\* fails, and winningTicketNumbers and drawRandomSeed stay as the first call
\* committed them through every later operation.
C5_DrawOneShot ==
    /\ []SecondDrawFails
    /\ [][DrawKept]_vars

\* C5 witness: a series drawn with one seed, where the owner's draw with
\* another seed is refused.
C5_Witness ==
    \E s \in SeriesIds :
        /\ seriesInfo[s].drawExecuted
        /\ seriesInfo[s].drawRandomSeed = 7150
        /\ ExecuteDrawOutcome(owner, s, 1189).result = "DrawAlreadyExecuted"

\* A sequence of exactly 10 pairwise distinct numbers of 1 .. 100.
WinningSet(numbers) ==
    /\ Len(numbers) = WINNING_TICKETS_COUNT
    /\ \A i \in DOMAIN numbers : numbers[i] \in 1 .. TICKETS_PER_SERIES
    /\ \A i, j \in DOMAIN numbers : numbers[i] = numbers[j] => i = j

\* C6: while drawExecuted is false a series has no winning numbers and no
\* seed; once it is true it has exactly 10 pairwise distinct winning numbers
\* within 1 .. 100.  An executeDraw call commits flag, seed and the 10
\* numbers together or nothing at all.
C6_WinningNumbersWellFormed ==
    /\ \A s \in SeriesIds :
          IF seriesInfo[s].drawExecuted
          THEN WinningSet(seriesInfo[s].winningTicketNumbers)
          ELSE /\ seriesInfo[s].winningTicketNumbers = << >>
               /\ seriesInfo[s].drawRandomSeed = 0
    /\ \A s \in SeriesIdInputs, caller \in Users, randomSeed \in Seeds :
          LET out == ExecuteDrawOutcome(caller, s, randomSeed)
          IN  IF out.result = "ok"
              THEN /\ out.post.seriesInfo[s].drawExecuted
                   /\ out.post.seriesInfo[s].drawRandomSeed = randomSeed
                   /\ WinningSet(out.post.seriesInfo[s].winningTicketNumbers)
              ELSE Rejected(out)

\* C6 witness: a drawn series whose generation met a number that was
\* already used (it computed more hashes than it selected numbers).
C6_Witness ==
    \E s \in SeriesIds :
        /\ seriesInfo[s].drawExecuted
        /\ GenerateWinningNumbers(seriesInfo[s].drawRandomSeed,
                                  seriesInfo[s].ticketsSold).k
              > WINNING_TICKETS_COUNT

\* C7: a series is never drawn below the threshold: executeDraw on a series
\* with ticketsSold < 90 is rejected (with NotEnoughTicketsSold for the
\* owner) and changes nothing, so drawExecuted implies ticketsSold >= 90.
C7_NoDrawBelowThreshold ==
    /\ \A s \in SeriesIds :
          seriesInfo[s].drawExecuted => seriesInfo[s].ticketsSold >= 90
    /\ \A s \in SeriesIds, caller \in Users, randomSeed \in Seeds :
          seriesInfo[s].ticketsSold < 90
          => LET out == ExecuteDrawOutcome(caller, s, randomSeed)
             IN  /\ Rejected(out)
                 /\ caller = owner => out.result = "NotEnoughTicketsSold"

\* C7 witness: a series with 10 tickets sold, whose draw the owner is
\* refused.
C7_Witness ==
    \E s \in SeriesIds :
        /\ seriesInfo[s].ticketsSold = 10
        /\ ExecuteDrawOutcome(owner, s, 189).result = "NotEnoughTicketsSold"

\* getSeriesInfo reports readiness exactly when 90 tickets are sold and the
\* draw is not executed, and exactly then the owner's executeDraw is
\* accepted and sets drawExecuted.
ReadinessMatchesDraw ==
    \A s \in SeriesIds, randomSeed \in Seeds :
        LET info == GetSeriesInfo(s)
            out == ExecuteDrawOutcome(owner, s, randomSeed)
        IN  /\ info.readyForDraw
               <=> (seriesInfo[s].ticketsSold >= 90 /\ ~seriesInfo[s].drawExecuted)
            /\ info.readyForDraw <=> out.result = "ok"
            /\ out.result = "ok" => out.post.seriesInfo[s].drawExecuted

\* One sequential purchase of 90 tickets in a fresh series leaves it with
\* 90 sold, ready for the draw and not drawn.
ScenarioA ==
    \A s \in SeriesIds :
        (seriesInfo[s].ticketsSold = 0 /\ seriesInfo'[s].ticketsSold = 90)
        => /\ GetSeriesInfo(s)'.soldCount = 90
           /\ GetSeriesInfo(s)'.readyForDraw
           /\ ~GetSeriesInfo(s)'.drawExecuted
           /\ GetSeriesInfo(s)'.totalTickets = TICKETS_PER_SERIES

\* C8: getSeriesInfo reports readyForDraw = true exactly when
\* ticketsSold >= 90 and drawExecuted = false, and in exactly those states
\* an admin executeDraw is accepted and sets drawExecuted; after one
\* sequential purchase of 90 tickets in a fresh series it reports 90 sold,
\* ready and not drawn.
C8_ReadyForDraw ==
    /\ []ReadinessMatchesDraw
    /\ [][ScenarioA]_vars

\* C8 witness: a series sold by one purchase of 90 tickets, reported ready,
\* whose draw the owner is granted.
C8_Witness ==
    \E s \in SeriesIds :
        /\ Len(purchases) = 1
        /\ purchases[1].count = 90
        /\ GetSeriesInfo(s).soldCount = 90
        /\ GetSeriesInfo(s).readyForDraw
        /\ ExecuteDrawOutcome(owner, s, 1189).result = "ok"

\* C9: distributeRewards on a series whose draw is not executed is rejected
\* with DrawNotExecuted and changes no state and no token balance; hence
\* rewardsDistributed implies drawExecuted.
C9_NoDistributionBeforeDraw ==
    /\ \A s \in rewardsDistributed : s \in SeriesIds /\ seriesInfo[s].drawExecuted
    /\ \A s \in SeriesIds, caller \in Users, failAt \in FailAts :
          ~seriesInfo[s].drawExecuted
          => LET out == DistributeRewardsOutcome(caller, s, failAt)
             IN  /\ Rejected(out)
                 /\ caller = owner => out.result = "DrawNotExecuted"

\* C9 witness: a series ready for its draw but not drawn, with the sales in
\* escrow, whose distribution the owner is refused.
C9_Witness ==
    \E s \in SeriesIds :
        /\ ReadyForDraw(seriesInfo[s])
        /\ usdtBalance[Lottery] > 0
        /\ DistributeRewardsOutcome(owner, s, 0).result = "DrawNotExecuted"

\* distributeRewards on a settled series is refused and moves no token.
SecondDistributionFails ==
    \A s \in rewardsDistributed, caller \in Users, failAt \in FailAts :
        LET out == DistributeRewardsOutcome(caller, s, failAt)
        IN  /\ Rejected(out)
            /\ caller = owner => out.result = "RewardsAlreadyDistributed"

\* A settled series stays settled.
SettledKept == rewardsDistributed \subseteq rewardsDistributed'

\* C10: distributeRewards is one-shot per series: rewardsDistributed goes
\* from false to true and never back, and a distributeRewards call on a
\* settled series fails and transfers nothing, so no series is paid twice.
C10_DistributionOneShot ==
    /\ []SecondDistributionFails
    /\ [][SettledKept]_vars

\* C10 witness: a settled series with tokens still in escrow, whose second
\* distribution the owner is refused.
C10_Witness ==
    \E s \in rewardsDistributed :
        /\ usdtBalance[Lottery] > 0
        /\ usdtBalance[Lottery] < received
        /\ DistributeRewardsOutcome(owner, s, 0).result
              = "RewardsAlreadyDistributed"

\* The reward loop of distributeRewards on series seriesId as it runs in the
\* current state when the token refuses transfer number failAt.
RewardLoop(seriesId, failAt) ==
    PayFrom([ok |-> TRUE, bal |-> usdtBalance, transfers |-> << >>],
            FindWinners(seriesId, seriesInfo[seriesId].winningTicketNumbers),
            1, RewardPerWinner(seriesInfo[seriesId]), failAt)

\* C11: the payout is atomic across the resolved winners: when one reward
\* transfer of a distributeRewards call fails, the call fails with
\* TransferFailed, every transfer it had already made is undone (no balance
\* changes) and rewardsDistributed stays false, so the call can be made
\* again.
C11_PayoutAtomic ==
    \A s \in SeriesIds, failAt \in FailAts :
        (/\ seriesInfo[s].drawExecuted
         /\ s \notin rewardsDistributed
         /\ ~RewardLoop(s, failAt).ok)
        => LET out == DistributeRewardsOutcome(owner, s, failAt)
           IN  /\ Rejected(out)
               /\ out.result = "TransferFailed"
               /\ out.post.usdtBalance = usdtBalance
               /\ s \notin out.post.rewardsDistributed

\* C11 witness: a drawn series whose third reward transfer is refused
\* after two were made; the call fails, and the same call goes through
\* when no transfer is refused.
C11_Witness ==
    \E s \in SeriesIds :
        /\ seriesInfo[s].drawExecuted
        /\ s \notin rewardsDistributed
        /\ Len(RewardLoop(s, 3).transfers) = 2
        /\ ~RewardLoop(s, 3).ok
        /\ DistributeRewardsOutcome(owner, s, 3).result = "TransferFailed"
        /\ DistributeRewardsOutcome(owner, s, 0).result = "ok"

\* Some entry of ticketNumbers is 0 or above the capacity of the series.
OutOfRange(ticketNumbers, series) ==
    \E i \in DOMAIN ticketNumbers :
        ticketNumbers[i] = 0 \/ ticketNumbers[i] > series.totalTickets

\* Some entry of ticketNumbers names a ticket of series s that has an
\* owner, or repeats another entry.
Taken(s, ticketNumbers) ==
    \/ \E i \in DOMAIN ticketNumbers :
          OwnerOf(TicketId(s, ticketNumbers[i])) # NullAddress
    \/ \E i, j \in DOMAIN ticketNumbers :
          i < j /\ ticketNumbers[i] = ticketNumbers[j]

\* C12: buyTicketsAt is all-or-nothing over its list: with a listed number
\* that is 0, above capacity, already owned or repeated in the list the
\* whole call fails, ticketsSold is unchanged and none of the listed
\* tickets is minted, the valid ones before the bad entry included, also
\* when the buyer could pay for the list.  On a series on sale with room
\* for the list the error is InvalidTicketNumber for a number out of range
\* and TicketAlreadySold otherwise.
C12_BuyTicketsAtAllOrNothing ==
    \A s \in SeriesIds, caller \in Users, ticketNumbers \in TicketLists :
        (OutOfRange(ticketNumbers, seriesInfo[s]) \/ Taken(s, ticketNumbers))
        => LET out == BuyTicketsAtOutcome(caller, s, ticketNumbers, TRUE)
           IN  /\ Rejected(out)
               /\ out.post.seriesInfo[s].ticketsSold = seriesInfo[s].ticketsSold
               /\ out.post.ticketsSold = ticketsSold
               /\ \A i \in DOMAIN ticketNumbers :
                     OwnerOf(TicketId(s, ticketNumbers[i]))
                        = IF TicketId(s, ticketNumbers[i])
                                \in DOMAIN out.post.ticketOwners
                          THEN out.post.ticketOwners[TicketId(s, ticketNumbers[i])]
                          ELSE NullAddress
               /\ (/\ ~seriesInfo[s].drawExecuted
                   /\ Len(ticketNumbers) <= Remaining(seriesInfo[s]))
                  => out.result
                        = IF OutOfRange(ticketNumbers, seriesInfo[s])
                          THEN "InvalidTicketNumber"
                          ELSE "TicketAlreadySold"

\* C12 witness: ticket 2 is sold and ticket 4 is not; the list <<4, 2>> is
\* refused for ticket 2 and leaves ticket 4 without owner, and the list
\* <<4, 0>> is refused for the number 0.
C12_Witness ==
    \E s \in SeriesIds :
        /\ seriesInfo[s].ticketsSold = 1
        /\ OwnerOf(TicketId(s, 2)) # NullAddress
        /\ OwnerOf(TicketId(s, 4)) = NullAddress
        /\ BuyTicketsAtOutcome("bob", s, <<4, 2>>, TRUE).result
              = "TicketAlreadySold"
        /\ BuyTicketsAtOutcome("bob", s, <<4, 0>>, TRUE).result
              = "InvalidTicketNumber"
        /\ BuyTicketsAtOutcome("bob", s, <<95, 95>>, TRUE).result
              = "TicketAlreadySold"

\* The transferFrom of a purchase of count tickets by caller succeeds.
CanPay(caller, count) == usdtBalance[caller] >= ticketPrice * count

\* C13: buyTickets(seriesId, count) by a buyer whose payment succeeds is
\* accepted whenever the series exists, is not drawn and
\* 1 <= count <= totalTickets - ticketsSold, and it mints exactly the
\* numbers ticketsSold + 1 .. ticketsSold + count, all unowned before, also
\* in a series where tickets were bought with buyTicketsAt.
C13_SequentialPurchaseAccepted ==
    \A s \in SeriesIds, caller \in Users, count \in BuyCounts :
        (/\ ~seriesInfo[s].drawExecuted
         /\ 1 <= count
         /\ count <= seriesInfo[s].totalTickets - seriesInfo[s].ticketsSold
         /\ CanPay(caller, count))
        => LET out == BuyTicketsOutcome(caller, s, count, TRUE)
           IN  /\ out.result = "ok"
               /\ out.ticketIds
                     = [i \in 1 .. count |->
                          TicketId(s, seriesInfo[s].ticketsSold + i)]
               /\ \A i \in 1 .. count :
                     OwnerOf(TicketId(s, seriesInfo[s].ticketsSold + i))
                        = NullAddress

\* The call is refused by onlyOwner and changes nothing.
RefusedAsNotOwner(out) == Rejected(out) /\ out.result = "NotOwner"

\* C14: setTicketPrice, setReward, transferOwnership, transferFunds,
\* generateSeries, executeDraw and distributeRewards called by an address
\* that is not the current owner are rejected (NotOwner) and change no
\* ledger state and no token balance, whatever their arguments.
C14_AdminOnly ==
    \A caller \in Users :
        caller # owner
        => /\ RefusedAsNotOwner(GenerateSeriesOutcome(caller))
           /\ \A price \in Prices \cup {ticketPrice + 1} :
                 /\ RefusedAsNotOwner(SetTicketPriceOutcome(caller, price))
                 /\ RefusedAsNotOwner(SetRewardOutcome(caller, price))
           /\ \A newOwner \in Users \cup {NullAddress} :
                 RefusedAsNotOwner(TransferOwnershipOutcome(caller, newOwner))
           /\ \A to \in Recipients \cup {caller},
                 amount \in {0, usdtBalance[Lottery]} :
                 RefusedAsNotOwner(TransferFundsOutcome(caller, to, amount, TRUE))
           /\ \A s \in SeriesIdInputs :
                 /\ \A randomSeed \in Seeds :
                       RefusedAsNotOwner(ExecuteDrawOutcome(caller, s, randomSeed))
                 /\ \A failAt \in FailAts :
                       RefusedAsNotOwner(DistributeRewardsOutcome(caller, s, failAt))

\* C14 witness: the ownership has passed from the deployer to bob, the
\* escrow holds tokens and a series is ready for its draw; the deployer's
\* withdrawal and draw are refused where bob's are accepted.
C14_Witness ==
    \E s \in SeriesIds :
        /\ owner = "bob"
        /\ usdtBalance[Lottery] > 0
        /\ ReadyForDraw(seriesInfo[s])
        /\ TransferFundsOutcome(Deployer, Deployer, usdtBalance[Lottery], TRUE).result
              = "NotOwner"
        /\ TransferFundsOutcome("bob", "bob", usdtBalance[Lottery], TRUE).result
              = "ok"
        /\ ExecuteDrawOutcome(Deployer, s, 1189).result = "NotOwner"
        /\ ExecuteDrawOutcome("bob", s, 1189).result = "ok"

\* The sum of the amounts of a sequence of transfers <<to, amount>>.
RECURSIVE TotalOf(_)
TotalOf(transfers) ==
    IF transfers = << >> THEN 0
    ELSE Head(transfers)[2] + TotalOf(Tail(transfers))

\* Series s is drawn, not settled, and the escrow holds less than its
\* nominal pool ticketsSold * ticketPrice.
Underfunded(s) ==
    /\ seriesInfo[s].drawExecuted
    /\ s \notin rewardsDistributed
    /\ usdtBalance[Lottery] < seriesInfo[s].ticketsSold * ticketPrice

\* C15 as claimed: with the escrow below ticketsSold * ticketPrice the
\* reward per winner is floor(balance / 10), the distribution succeeds, the
\* total paid is the balance minus balance mod 10 and rewardsDistributed
\* becomes true.
C15_UnderfundedPaysAllButRemainder ==
    \A s \in SeriesIds :
        Underfunded(s)
        => LET out == DistributeRewardsOutcome(owner, s, 0)
               balance == usdtBalance[Lottery]
           IN  /\ RewardPerWinner(seriesInfo[s])
                     = balance \div WINNING_TICKETS_COUNT
               /\ out.result = "ok"
               /\ TotalOf(out.transfers)
                     = balance - (balance % WINNING_TICKETS_COUNT)
               /\ s \in out.post.rewardsDistributed

\* C15 amended: with the escrow below ticketsSold * ticketPrice the reward
\* per winner is floor(balance / 10).  When the token refuses no transfer,
\* a series with a sold winning ticket is settled, and the total paid is
\* the reward times the number of sold winning tickets: at most the balance
\* minus balance mod 10, and equal to it when all 10 were sold.  A series
\* without a sold winning ticket is refused with InsufficientWinners.
C15_UnderfundedPaysSoldWinners ==
    \A s \in SeriesIds :
        Underfunded(s)
        => LET out == DistributeRewardsOutcome(owner, s, 0)
               balance == usdtBalance[Lottery]
               rewardPerWinner == balance \div WINNING_TICKETS_COUNT
               winners == FindWinners(s, seriesInfo[s].winningTicketNumbers)
           IN  /\ RewardPerWinner(seriesInfo[s]) = rewardPerWinner
               /\ IF Len(winners) = 0
                  THEN Rejected(out) /\ out.result = "InsufficientWinners"
                  ELSE /\ out.result = "ok"
                       /\ TotalOf(out.transfers) = rewardPerWinner * Len(winners)
                       /\ usdtBalance[Lottery] - out.post.usdtBalance[Lottery]
                             = TotalOf(out.transfers)
                       /\ TotalOf(out.transfers)
                             <= balance - (balance % WINNING_TICKETS_COUNT)
                       /\ Len(winners) = WINNING_TICKETS_COUNT
                          => TotalOf(out.transfers)
                                = balance - (balance % WINNING_TICKETS_COUNT)
                       /\ s \in out.post.rewardsDistributed

\* C15 witness: a drawn series with fewer than 10 sold winning tickets and
\* an escrow below its pool that is not a multiple of 10; the distribution
\* goes through and pays less than the balance minus the remainder.
C15_Witness ==
    \E s \in SeriesIds :
        /\ Underfunded(s)
        /\ usdtBalance[Lottery] % WINNING_TICKETS_COUNT # 0
        /\ usdtBalance[Lottery] >= WINNING_TICKETS_COUNT
        /\ Len(FindWinners(s, seriesInfo[s].winningTicketNumbers))
              \in 1 .. (WINNING_TICKETS_COUNT - 1)
        /\ DistributeRewardsOutcome(owner, s, 0).result = "ok"
        /\ TotalOf(DistributeRewardsOutcome(owner, s, 0).transfers)
              < usdtBalance[Lottery]
                  - (usdtBalance[Lottery] % WINNING_TICKETS_COUNT)

\* The winning numbers of series s whose ticket has an owner, in the order
\* of the draw.
SoldWinningNumbers(s) ==
    LET Sold(winningTicketNumber) ==
            OwnerOf(TicketId(s, winningTicketNumber)) # NullAddress
    IN  SelectSeq(seriesInfo[s].winningTicketNumbers, Sold)

PurchasesOf(s) ==
    LET Named(purchase) == purchase.seriesId = s
    IN  SelectSeq(purchases, Named)

\* The entries <<address, index>> of the owner-index lists that hold a
\* ticket id of series s.
IndexEntries(s) ==
    {e \in UNION {{<<u, i>> : i \in DOMAIN ownedTicketIds[u]} : u \in Users} :
        ownedTicketIds[e[1]][e[2]][1] = s}

PurchaseCommitted == Len(purchases') = Len(purchases) + 1

\* The ticket ids the step has minted.
MintedNow == DOMAIN ticketOwners' \ DOMAIN ticketOwners

\* A purchase step decides every race it is part of.  The loser is an
\* attempt that the state before the step would have accepted; when it asks
\* for more tickets than the winner has left, or lists a number the winner
\* has minted, it is rejected in the state after the step: nothing of its
\* batch is minted and its buyer is not charged.  The contested tickets
\* belong to the winner alone.
FirstCommitterWins ==
    \A s \in SeriesIds :
    (PurchaseCommitted /\ purchases'[Len(purchases')].seriesId = s)
    => LET winner == purchases'[Len(purchases')]
       IN  /\ \A id \in MintedNow : ticketOwners'[id] = winner.buyer
           /\ Cardinality(MintedNow) = winner.count
           /\ \A caller \in Users, tokenOk \in BOOLEAN :
                 /\ \A count \in BuyCounts :
                       (/\ BuyTicketsOutcome(caller, s, count, tokenOk).result = "ok"
                        /\ winner.count + count > Remaining(seriesInfo[s]))
                       => Rejected(BuyTicketsOutcome(caller, s, count, tokenOk))'
                 /\ \A ticketNumbers \in TicketLists :
                       (/\ BuyTicketsAtOutcome(caller, s, ticketNumbers, tokenOk).result
                              = "ok"
                        /\ \/ winner.count + Len(ticketNumbers)
                                 > Remaining(seriesInfo[s])
                           \/ \E i \in DOMAIN ticketNumbers :
                                 TicketId(s, ticketNumbers[i]) \in MintedNow)
                       => Rejected(BuyTicketsAtOutcome(caller, s, ticketNumbers,
                                                      tokenOk))'

\* C18: when two purchase attempts prepared from the same state race for
\* the same remaining capacity or the same explicit ticket number, the
\* first to commit succeeds and the other is rejected without side effect:
\* the contested ticket has exactly one owner, nothing of the loser's batch
\* is minted and the loser is not charged.
C18_FirstCommitterWins == [][FirstCommitterWins]_vars

\* C18 witness: alice and bob both had funds for ticket 2 of a fresh
\* series; alice's purchase of <<2>> is committed, and bob's list <<4, 2>>
\* is now refused, leaving ticket 4 without owner and bob's tokens with bob.
C18_Witness ==
    \E s \in SeriesIds :
        /\ purchases = <<[buyer |-> "alice", seriesId |-> s, count |-> 1,
                          totalCost |-> InitialTicketPrice]>>
        /\ SoldIds(s) = {TicketId(s, 2)}
        /\ ticketOwners[TicketId(s, 2)] = "alice"
        /\ usdtBalance["bob"] = InitialFunds
        /\ CanPay("bob", 2)
        /\ Rejected(BuyTicketsAtOutcome("bob", s, <<4, 2>>, TRUE))

\* The stage of series s: 0 created, 1 selling, 2 ready for the draw,
\* 3 drawn, 4 settled.
Stage(s) ==
    IF s \in rewardsDistributed THEN 4
    ELSE IF seriesInfo[s].drawExecuted THEN 3
    ELSE IF seriesInfo[s].ticketsSold >= DRAW_THRESHOLD THEN 2
    ELSE IF seriesInfo[s].ticketsSold > 0 THEN 1
    ELSE 0

\* One step of series s: forward only, and not at all once settled.
MovesForward(s) ==
    /\ Stage(s)' >= Stage(s)
    /\ seriesInfo'[s].ticketsSold >= seriesInfo[s].ticketsSold
    /\ seriesInfo[s].drawExecuted => seriesInfo'[s].drawExecuted
    /\ s \in rewardsDistributed => s \in rewardsDistributed'
    /\ s \in rewardsDistributed
       => /\ seriesInfo'[s] = seriesInfo[s]
          /\ \/ ticketOwners' = ticketOwners
             \/ /\ SoldIds(s)' = SoldIds(s)
                /\ \A id \in SoldIds(s) : ticketOwners'[id] = ticketOwners[id]

\* The call leaves series s as it is: its fields, its settled flag and the
\* owners of its tickets.
LeavesSeries(out, s) ==
    /\ out.post.seriesInfo[s] = seriesInfo[s]
    /\ (s \in out.post.rewardsDistributed) = (s \in rewardsDistributed)
    /\ \/ out.post.ticketOwners = ticketOwners
       \/ /\ {id \in DOMAIN out.post.ticketOwners : id[1] = s} = SoldIds(s)
          /\ \A id \in SoldIds(s) : out.post.ticketOwners[id] = ticketOwners[id]

\* No call, accepted or not, changes a settled series.
SettledReadOnly ==
    \A s \in rewardsDistributed, caller \in Users :
        /\ LeavesSeries(GenerateSeriesOutcome(caller), s)
        /\ \A price \in Prices :
              /\ LeavesSeries(SetTicketPriceOutcome(caller, price), s)
              /\ LeavesSeries(SetRewardOutcome(caller, price), s)
        /\ \A newOwner \in Users :
              LeavesSeries(TransferOwnershipOutcome(caller, newOwner), s)
        /\ \A to \in Recipients :
              LeavesSeries(TransferFundsOutcome(caller, to, usdtBalance[Lottery],
                                                TRUE), s)
        /\ \A tokenOk \in BOOLEAN :
              /\ \A count \in BuyCounts :
                    LeavesSeries(BuyTicketsOutcome(caller, s, count, tokenOk), s)
              /\ \A ticketNumbers \in TicketLists :
                    LeavesSeries(BuyTicketsAtOutcome(caller, s, ticketNumbers,
                                                     tokenOk), s)
        /\ \A randomSeed \in Seeds :
              LeavesSeries(ExecuteDrawOutcome(caller, s, randomSeed), s)
        /\ \A failAt \in FailAts :
              LeavesSeries(DistributeRewardsOutcome(caller, s, failAt), s)

\* C19: each series only moves forward through created, selling, ready for
\* the draw, drawn and settled: ticketsSold never decreases, drawExecuted
\* and rewardsDistributed never return to false, and once a series is
\* settled no operation changes its ticketsSold, winning numbers, seed,
\* flags or ticket owners.
C19_LifecycleForward ==
    /\ []SettledReadOnly
    /\ [][\A s \in SeriesIds : MovesForward(s)]_vars

\* C19 witness: a settled series with tickets left, on which a purchase, a
\* draw and a distribution are all refused.
C19_Witness ==
    \E s \in SeriesIds :
        /\ Stage(s) = 4
        /\ seriesInfo[s].ticketsSold < seriesInfo[s].totalTickets
        /\ Rejected(BuyTicketsAtOutcome("alice", s, <<95, 95>>, TRUE))
        /\ Rejected(BuyTicketsOutcome("alice", s, 10, TRUE))
        /\ Rejected(ExecuteDrawOutcome(owner, s, 7150))
        /\ Rejected(DistributeRewardsOutcome(owner, s, 0))

\* The call is refused with the given error and changes nothing.
RefusedWith(out, error) == Rejected(out) /\ out.result = error

\* The series ids that name no series: 0 and the ids after the last one.
UnknownIds == {0, totalSeriesCount + 1}

\* What the calls that fail a validation return.
ValidationRejects ==
    /\ \A caller \in Users, tokenOk \in {TRUE} :
          /\ \A s \in SeriesIds \cup UnknownIds :
                /\ RefusedWith(BuyTicketsOutcome(caller, s, 0, tokenOk),
                               "InvalidTicketCount")
                /\ RefusedWith(BuyTicketsAtOutcome(caller, s, << >>, tokenOk),
                               "InvalidTicketCount")
          /\ \A s \in SeriesIds, ticketNumbers \in TicketLists :
                OutOfRange(ticketNumbers, seriesInfo[s])
                => LET out == BuyTicketsAtOutcome(caller, s, ticketNumbers, tokenOk)
                   IN  /\ Rejected(out)
                       /\ (/\ ~seriesInfo[s].drawExecuted
                           /\ Len(ticketNumbers) <= Remaining(seriesInfo[s]))
                          => out.result = "InvalidTicketNumber"
          /\ \A s \in UnknownIds :
                /\ \A count \in BuyCounts \ {0} :
                      RefusedWith(BuyTicketsOutcome(caller, s, count, tokenOk),
                                  "InvalidSeriesId")
                /\ \A ticketNumbers \in TicketLists :
                      RefusedWith(BuyTicketsAtOutcome(caller, s, ticketNumbers,
                                                      tokenOk),
                                  "InvalidSeriesId")
    /\ \A caller \in Users, s \in UnknownIds :
          /\ \A randomSeed \in Seeds :
                RefusedWith(ExecuteDrawOutcome(caller, s, randomSeed),
                            IF caller = owner THEN "InvalidSeriesId"
                            ELSE "NotOwner")
          /\ \A failAt \in FailAts :
                RefusedWith(DistributeRewardsOutcome(caller, s, failAt),
                            IF caller = owner THEN "InvalidSeriesId"
                            ELSE "NotOwner")

\* C20: validation failures never mutate state: a purchase of 0 tickets or
\* with an empty list (InvalidTicketCount), a listed number that is 0 or
\* above capacity (InvalidTicketNumber when the check is reached), and a
\* purchase, draw or distribution naming series id 0 or an id above
\* totalSeriesCount (InvalidSeriesId) are rejected with the ledger and all
\* balances unchanged, also when the token would let the payment through.
C20_ValidationRejects == []ValidationRejects

\* C20 witness: the last series is ready for its draw and the escrow holds
\* its sales; the owner's draw of it is accepted, that of the ids 0 and
\* totalSeriesCount + 1 is refused, and so are a purchase of 0 tickets and
\* a list with the number 0.
C20_Witness ==
    /\ totalSeriesCount >= 1
    /\ ReadyForDraw(SeriesAt(totalSeriesCount))
    /\ usdtBalance[Lottery] > 0
    /\ ExecuteDrawOutcome(owner, totalSeriesCount, 189).result = "ok"
    /\ ExecuteDrawOutcome(owner, totalSeriesCount + 1, 189).result
          = "InvalidSeriesId"
    /\ ExecuteDrawOutcome(owner, 0, 189).result = "InvalidSeriesId"
    /\ BuyTicketsOutcome("alice", totalSeriesCount, 0, TRUE).result
          = "InvalidTicketCount"
    /\ BuyTicketsAtOutcome("alice", totalSeriesCount, <<4, 0>>, TRUE).result
          = "InvalidTicketNumber"

\* A series as generateSeries leaves it: 100 tickets, none sold, not drawn,
\* no winning numbers.
FreshSeries ==
    [totalTickets |-> TICKETS_PER_SERIES, ticketsSold |-> 0,
     winningTicketNumbers |-> << >>, drawExecuted |-> FALSE,
     drawRandomSeed |-> 0]

\* C21: generateSeries by the admin is accepted, increases totalSeriesCount
\* by exactly 1 and creates the series with that new id with capacity 100,
\* ticketsSold 0, drawExecuted false, no winning numbers and rewards not
\* distributed; the ids in use are 1 .. totalSeriesCount, without gaps or
\* reuse, and every series created before, like the rest of the storage,
\* is left unchanged.
C21_GenerateSeriesNextId ==
    LET out == GenerateSeriesOutcome(owner)
        newId == totalSeriesCount + 1
    IN  /\ DOMAIN seriesInfo = SeriesIds
        /\ out.result = "ok"
        /\ out.post.totalSeriesCount = newId
        /\ DOMAIN out.post.seriesInfo = 1 .. newId
        /\ out.post.seriesInfo[newId] = FreshSeries
        /\ newId \notin out.post.rewardsDistributed
        /\ \A s \in SeriesIds : out.post.seriesInfo[s] = seriesInfo[s]
        /\ out.post = [Current EXCEPT !.totalSeriesCount = newId,
                                      !.seriesInfo = out.post.seriesInfo]
        /\ out.transfers = << >>

\* C21 witness: series 1 was generated from the empty contract and has been
\* sold, drawn and settled; the next generateSeries creates series 2.
C21_Witness ==
    /\ totalSeriesCount = 1
    /\ seriesInfo[1].ticketsSold >= DRAW_THRESHOLD
    /\ seriesInfo[1].drawExecuted
    /\ 1 \in rewardsDistributed
    /\ GenerateSeriesOutcome(owner).post.totalSeriesCount = 2
    /\ GenerateSeriesOutcome(owner).post.seriesInfo[2] = FreshSeries
    /\ GenerateSeriesOutcome(owner).post.seriesInfo[1] = seriesInfo[1]

\* The admin calls of caller that name no series are accepted.
ConfigCallsAccepted(caller) ==
    /\ GenerateSeriesOutcome(caller).result = "ok"
    /\ \A price \in Prices :
          /\ SetTicketPriceOutcome(caller, price).result = "ok"
          /\ SetRewardOutcome(caller, price).result = "ok"
    /\ \A newOwner \in Users :
          TransferOwnershipOutcome(caller, newOwner).result = "ok"
    /\ TransferFundsOutcome(caller, "bob", usdtBalance[Lottery], TRUE).result
          = "ok"

\* The admin calls of caller get past onlyOwner: none of the seven
\* owner-only functions answers NotOwner.
AdminCallsAccepted(caller) ==
    /\ ConfigCallsAccepted(caller)
    /\ \A s \in SeriesIdInputs :
          /\ \A randomSeed \in Seeds :
                ExecuteDrawOutcome(caller, s, randomSeed).result # "NotOwner"
          /\ DistributeRewardsOutcome(caller, s, 0).result # "NotOwner"

\* The admin calls of caller that name no series are refused with NotOwner.
ConfigCallsRefused(caller) ==
    /\ GenerateSeriesOutcome(caller).result = "NotOwner"
    /\ \A price \in Prices :
          /\ SetTicketPriceOutcome(caller, price).result = "NotOwner"
          /\ SetRewardOutcome(caller, price).result = "NotOwner"
    /\ \A newOwner \in Users \cup {NullAddress} :
          TransferOwnershipOutcome(caller, newOwner).result = "NotOwner"
    /\ TransferFundsOutcome(caller, "bob", usdtBalance[Lottery], TRUE).result
          = "NotOwner"

\* Every admin call of caller is refused with NotOwner.
AdminCallsRefused(caller) ==
    /\ ConfigCallsRefused(caller)
    /\ \A s \in SeriesIdInputs :
          /\ \A randomSeed \in Seeds :
                ExecuteDrawOutcome(caller, s, randomSeed).result = "NotOwner"
          /\ DistributeRewardsOutcome(caller, s, 0).result = "NotOwner"

\* One admin, not the null address: its admin calls are accepted, those of
\* everyone else refused; it can hand the role to any non-null address,
\* which changes the owner and nothing else, and not to the null address.
SingleAdmin ==
    /\ owner \in Users
    /\ AdminCallsAccepted(owner)
    /\ \A caller \in (Users \cup {NullAddress}) \ {owner} :
          AdminCallsRefused(caller)
    /\ \A newOwner \in Users :
          TransferOwnershipOutcome(owner, newOwner)
             = Outcome("ok", [Current EXCEPT !.owner = newOwner], << >>, << >>)
    /\ Rejected(TransferOwnershipOutcome(owner, NullAddress))
    /\ TransferOwnershipOutcome(owner, NullAddress).result = "InvalidAddress"

\* A step that changes the owner: the new owner is a non-null address, its
\* admin calls are accepted in the state reached and those of the previous
\* owner are refused (SingleAdmin says so of the draw and the distribution
\* in that state), and nothing but the owner has changed.
AdminHandedOver ==
    owner' # owner
    => /\ owner' \in Users
       /\ \A caller \in Users :
             /\ caller = owner' => ConfigCallsAccepted(caller)'
             /\ caller = owner => ConfigCallsRefused(caller)'
       /\ UNCHANGED <<usdtBalance, ticketPrice, ticketsSold, totalSeriesCount,
                      rewardPerUser, seriesInfo, ticketBalances, ticketOwners,
                      ticketSeries, ownedTicketIds, rewardsDistributed>>

\* C22: at every moment exactly one non-null address is the admin: a
\* successful transferOwnership(newOwner) makes newOwner the only address
\* whose admin calls are accepted (those of the previous admin are rejected
\* from then on), and transferOwnership to the null address is rejected
\* with the admin unchanged.
C22_SingleAdmin ==
    /\ []SingleAdmin
    /\ [][AdminHandedOver]_vars

\* C22 witness: the deployer has handed the role to bob; bob's admin calls
\* are accepted, the deployer's are refused, and bob cannot hand the role to
\* the null address.
C22_Witness ==
    /\ owner = "bob"
    /\ owner # Deployer
    /\ totalSeriesCount >= 1
    /\ AdminCallsAccepted("bob")
    /\ AdminCallsRefused(Deployer)
    /\ TransferOwnershipOutcome("bob", NullAddress).result = "InvalidAddress"

\* C23: winning-number generation inside executeDraw always terminates
\* whatever values the hash produces: after a collision it makes at most
\* 200 re-hash attempts and then treats the situation as a fatal failure
\* instead of continuing to search, so that no hash is computed after the
\* retry loop has given up, and every executeDraw call either commits 10
\* numbers or fails with the state unchanged.
C23_RetryExhaustionFatal ==
    \A s \in SeriesIds, randomSeed \in Seeds \cup CollidingSeeds :
        ReadyForDraw(seriesInfo[s])
        => LET out == ExecuteDrawOutcome(owner, s, randomSeed)
               g == GenerateWinningNumbers(randomSeed, seriesInfo[s].ticketsSold)
           IN  /\ \/ /\ out.result = "ok"
                     /\ Len(out.post.seriesInfo[s].winningTicketNumbers)
                           = WINNING_TICKETS_COUNT
                  \/ Rejected(out)
               /\ g.exhaustedAt # 0
                  => /\ g.k = g.exhaustedAt
                     /\ Rejected(out)

\* The call, which names series a, leaves every other series as it is.
LeavesOthers(out, a) == \A b \in SeriesIds \ {a} : LeavesSeries(out, b)

\* No draw or distribution naming series a, accepted or not, changes a
\* field, the settled flag or a ticket owner of another series.
DrawLeavesOthers ==
    \A a \in SeriesIds :
        /\ \A randomSeed \in WideSeeds :
              LeavesOthers(ExecuteDrawOutcome(owner, a, randomSeed), a)
        /\ LeavesOthers(DistributeRewardsOutcome(owner, a, 0), a)

\* A purchase step, which names the series of the last entry of purchases',
\* mints ids of that series only and changes no field, settled flag or
\* ticket owner of another series.
PurchaseLeavesOthers ==
    PurchaseCommitted
    => LET a == purchases'[Len(purchases')].seriesId
       IN  /\ \A id \in MintedNow : id[1] = a
           /\ \A id \in DOMAIN ticketOwners : ticketOwners'[id] = ticketOwners[id]
           /\ rewardsDistributed' = rewardsDistributed
           /\ \A b \in SeriesIds \ {a} : seriesInfo'[b] = seriesInfo[b]

\* The ticket numbers a purchase is tried with, and the one whose purchase
\* is followed to the owner it writes.
ProbeNumbers == {1, 2, 50, 91, 95, 96, TICKETS_PER_SERIES}
ProbeEffects == {95}

\* Every in-range number without owner of a series that is not drawn and
\* not full can be bought with buyTicketsAt by a buyer who can pay,
\* whatever the other series are at and however many tickets the series
\* has sold.
Purchasable ==
    \A s \in SeriesIds, caller \in Users :
        (/\ ~seriesInfo[s].drawExecuted
         /\ seriesInfo[s].ticketsSold < seriesInfo[s].totalTickets
         /\ CanPay(caller, 1))
        => /\ \A n \in ProbeNumbers :
                 OwnerOf(TicketId(s, n)) = NullAddress
                 => BuyTicketsAtOutcome(caller, s, <<n>>, TRUE).result = "ok"
           /\ \A n \in ProbeEffects :
                 OwnerOf(TicketId(s, n)) = NullAddress
                 => LET out == BuyTicketsAtOutcome(caller, s, <<n>>, TRUE)
                    IN  /\ out.ticketIds = <<TicketId(s, n)>>
                        /\ out.post.ticketOwners[TicketId(s, n)] = caller
                        /\ out.post.seriesInfo[s].ticketsSold
                              = seriesInfo[s].ticketsSold + 1

\* C24: series are independent: a purchase, draw or distribution naming
\* series A changes no field and no ticket owner of any other series B, and
\* any in-range, unowned ticket number of an existing, non-drawn, non-full
\* series can be bought with buyTicketsAt (payment succeeding) whatever the
\* state of the other series, including after the series has passed the
\* 90-ticket threshold but before its draw.
C24_SeriesIndependent ==
    /\ [](DrawLeavesOthers /\ Purchasable)
    /\ [][PurchaseLeavesOthers]_vars

\* C24 witness: series 1 is drawn, series 2 has sold 90 tickets and is not
\* drawn; alice's purchase of ticket 95 of series 2 is accepted and leaves
\* series 1 as it is, and a purchase in series 1 is refused.
C24_Witness ==
    /\ totalSeriesCount >= 2
    /\ seriesInfo[1].drawExecuted
    /\ seriesInfo[2].ticketsSold >= DRAW_THRESHOLD
    /\ ~seriesInfo[2].drawExecuted
    /\ BuyTicketsAtOutcome("alice", 2, <<95>>, TRUE).result = "ok"
    /\ LeavesSeries(BuyTicketsAtOutcome("alice", 2, <<95>>, TRUE), 1)
    /\ Rejected(BuyTicketsAtOutcome("alice", 1, <<95>>, TRUE))

\* The escrow holds at least the pool of drawn, unsettled series s.
Funded(s) ==
    /\ seriesInfo[s].drawExecuted
    /\ s \notin rewardsDistributed
    /\ usdtBalance[Lottery] >= seriesInfo[s].ticketsSold * ticketPrice

\* The reward of a funded series is rewardPerUser * 10^18, and an accepted
\* distribution transfers that amount once per sold winning ticket.
FixedNominalReward ==
    /\ rewardPerUser = InitialRewardPerUser
    /\ \A s \in SeriesIds :
          Funded(s)
          => LET out == DistributeRewardsOutcome(owner, s, 0)
                 winners == FindWinners(s, seriesInfo[s].winningTicketNumbers)
             IN  /\ RewardPerWinner(seriesInfo[s]) = TokenUnit
                 /\ out.result = "ok"
                    => out.transfers
                          = [i \in 1 .. Len(winners) |-> <<winners[i], TokenUnit>>]

\* C25: when the escrow balance at distributeRewards time is at least
\* ticketsSold * ticketPrice, the reward is the fixed nominal reward,
\* rewardPerUser * 10^18, which is 1 token, whatever ticketsSold, ticketPrice
\* and the number of sold winning tickets are, and a distribution that goes
\* through pays exactly that to the owner of every sold winning ticket.
C25_FixedNominalReward == []FixedNominalReward

\* C25 witness: a drawn series with 9 sold winning tickets, 90 tickets sold
\* at 0.11 and the escrow holding the sales, where the distribution pays 9
\* times 1 token.
C25_Witness ==
    \E s \in SeriesIds :
        /\ Funded(s)
        /\ seriesInfo[s].ticketsSold = DRAW_THRESHOLD
        /\ ticketPrice = InitialTicketPrice
        /\ Len(FindWinners(s, seriesInfo[s].winningTicketNumbers)) = 9
        /\ DistributeRewardsOutcome(owner, s, 0).result = "ok"
        /\ TotalOf(DistributeRewardsOutcome(owner, s, 0).transfers)
              = 9 * TokenUnit

\* seq is what longer starts with.
IsPrefix(seq, longer) ==
    /\ Len(seq) <= Len(longer)
    /\ SubSeq(longer, 1, Len(seq)) = seq

\* One step of the owner index: every list keeps what it held, in place; a
\* purchase step appends to the buyer's list as many ids as it bought, the
\* ids it minted, and no other step and no other list grows.
OwnedAppendOnly ==
    /\ \A u \in Users : IsPrefix(ownedTicketIds[u], ownedTicketIds'[u])
    /\ PurchaseCommitted
       => LET bought == purchases'[Len(purchases')]
              before == Len(ownedTicketIds[bought.buyer])
              after == ownedTicketIds'[bought.buyer]
          IN  /\ Len(after) = before + bought.count
              /\ {after[i] : i \in (before + 1) .. Len(after)} = MintedNow
              /\ \A u \in Users \ {bought.buyer} :
                    ownedTicketIds'[u] = ownedTicketIds[u]
    /\ ~PurchaseCommitted => ownedTicketIds' = ownedTicketIds

\* An accepted purchase appends the ids of its numbers in the order they
\* were bought: as listed for buyTicketsAt, ascending from ticketsSold + 1
\* for buyTickets.
OwnedInPurchaseOrder ==
    \A s \in SeriesIds, caller \in Users :
        /\ \A ticketNumbers \in {<<4, 2>>, <<2>>} :
              LET out == BuyTicketsAtOutcome(caller, s, ticketNumbers, TRUE)
              IN  out.result = "ok"
                  => out.post.ownedTicketIds[caller]
                        = ownedTicketIds[caller]
                          \o [i \in 1 .. Len(ticketNumbers)
                                |-> TicketId(s, ticketNumbers[i])]
        /\ \A count \in {10} :
              LET out == BuyTicketsOutcome(caller, s, count, TRUE)
              IN  out.result = "ok"
                  => out.post.ownedTicketIds[caller]
                        = ownedTicketIds[caller]
                          \o [i \in 1 .. count
                                |-> TicketId(s, seriesInfo[s].ticketsSold + i)]

\* C26: each address's owned-ticket list is append-only: after any
\* operation the previous list is a prefix of the new one, entries are
\* never removed or reordered, and a successful purchase appends exactly
\* the minted identities in the order they were bought.
C26_OwnedListAppendOnly ==
    /\ []OwnedInPurchaseOrder
    /\ [][OwnedAppendOnly]_vars

\* C26 witness: bob holds the ids of the numbers 4 and 2 in the order he
\* bought them, and his purchase of the numbers 95 and 1 is appended behind
\* them, 95 first.
C26_Witness ==
    \E s \in SeriesIds :
        /\ Len(purchases) = 1
        /\ purchases[1].buyer = "bob"
        /\ GetOwnedTicketIds("bob") = <<TicketId(s, 4), TicketId(s, 2)>>
        /\ BuyTicketsAtOutcome("bob", s, <<95, 1>>, TRUE).result = "ok"
        /\ BuyTicketsAtOutcome("bob", s, <<95, 1>>, TRUE).post.ownedTicketIds["bob"]
              = <<TicketId(s, 4), TicketId(s, 2), TicketId(s, 95), TicketId(s, 1)>>

\* The event of an accepted distribution against the transfers it made.
SummaryMatchesPayout ==
    \A s \in SeriesIds, failAt \in FailAts :
        LET out == DistributeRewardsOutcome(owner, s, failAt)
            event == RewardsDistributedEvent(s)
            paid == {out.transfers[i][1] : i \in DOMAIN out.transfers}
        IN  out.result = "ok"
            => /\ \A a \in paid :
                     Cardinality({i \in DOMAIN event.winners :
                                    event.winners[i] = a}) = 1
               /\ \A i \in DOMAIN event.winners :
                     /\ event.winners[i] # NullAddress
                     /\ \A j \in DOMAIN event.winners :
                           event.winners[j] = event.winners[i] => j = i
               /\ event.rewardPerWinner = RewardPerWinner(seriesInfo[s])
               /\ event.totalAmount
                     = event.rewardPerWinner * Len(SoldWinningNumbers(s))
               /\ event.totalAmount = TotalOf(out.transfers)
               /\ event.totalAmount
                     = usdtBalance[Lottery] - out.post.usdtBalance[Lottery]

\* C27: the RewardsDistributed summary of a successful distribution lists
\* every paid address exactly once and never the null address, and its
\* total amount equals rewardPerWinner times the number of sold winning
\* tickets, which is exactly the sum of the transfers made by that call.
C27_SummaryMatchesPayout == []SummaryMatchesPayout

\* C27 witness: bob owns the 9 sold winning tickets of a funded series; the
\* distribution makes 9 transfers to bob, and its summary lists bob once
\* with a total of 9 tokens.
C27_Witness ==
    \E s \in SeriesIds :
        /\ DistributeRewardsOutcome(owner, s, 0).result = "ok"
        /\ Len(DistributeRewardsOutcome(owner, s, 0).transfers) = 9
        /\ RewardsDistributedEvent(s).winners = <<"bob">>
        /\ RewardsDistributedEvent(s).rewardPerWinner = TokenUnit
        /\ RewardsDistributedEvent(s).totalAmount = 9 * TokenUnit

\* The series ids and ticket numbers the packing is tried with: the newest
\* series and the one generateSeries would create next (every id from 1 on
\* is one of them in some state), and every number of a series.  The ids
\* of the other series are met as the keys of the ledger.
PackedSeriesIds == {totalSeriesCount, totalSeriesCount + 1} \ {0}
PackedNumbers == 1 .. TICKETS_PER_SERIES

\* C28: ticket identity packing is injective and round-trips: for every
\* series id s >= 1 and ticket number n in 1..100, id = (s << 128) | n
\* decodes back to (id >> 128, id & (2^128 - 1)) = (s, n), so tickets of
\* different series never share an identity, and the recorded ticketSeries
\* of a minted id equals its high bits.
C28_TicketIdRoundTrip ==
    /\ LET packed == [s \in PackedSeriesIds |->
                         [n \in PackedNumbers |-> PackedTicketId(s, n)]]
       IN  /\ \A s \in PackedSeriesIds, n \in PackedNumbers :
                 /\ ExtractSeriesId(packed[s][n]) = s
                 /\ ExtractTicketOrdinal(packed[s][n]) = n
                 /\ TicketId(s, n) = packed[s][n]
           /\ Cardinality({packed[s][n] : s \in PackedSeriesIds,
                                          n \in PackedNumbers})
                 = Cardinality(PackedSeriesIds) * TICKETS_PER_SERIES
           /\ \A s \in PackedSeriesIds, n \in PackedNumbers :
                 packed[s][n] \in DOMAIN ticketOwners
                 => ticketSeries[packed[s][n]] = s
    /\ DOMAIN ticketSeries = DOMAIN ticketOwners
    /\ \A id \in DOMAIN ticketOwners :
          /\ ticketSeries[id] = ExtractSeriesId(id)
          /\ ExtractSeriesId(id) \in SeriesIds
          /\ ExtractTicketOrdinal(id) \in PackedNumbers
          /\ id = PackedTicketId(ExtractSeriesId(id), ExtractTicketOrdinal(id))

\* C28 witness: the ticket number 2 has been bought in series 1 and in
\* series 2; the two ids differ and decode to their series and number.
C28_Witness ==
    /\ totalSeriesCount >= 2
    /\ PackedTicketId(1, 2) \in DOMAIN ticketOwners
    /\ PackedTicketId(2, 2) \in DOMAIN ticketOwners
    /\ PackedTicketId(1, 2) # PackedTicketId(2, 2)
    /\ ticketSeries[PackedTicketId(1, 2)] = 1
    /\ ticketSeries[PackedTicketId(2, 2)] = 2
    /\ ExtractTicketOrdinal(PackedTicketId(2, 2)) = 2

\* What a transferFunds call of the owner returns and writes, for every
\* recipient, token answer and amount up to one above the balance.
TransferFundsFrame ==
    \A to \in Recipients, tokenOk \in BOOLEAN,
       amount \in Amounts \cup {0, usdtBalance[Lottery], usdtBalance[Lottery] + 1} :
        LET out == TransferFundsOutcome(owner, to, amount, tokenOk)
        IN  IF to = NullAddress THEN RefusedWith(out, "InvalidAddress")
            ELSE IF ~tokenOk \/ amount > usdtBalance[Lottery]
                 THEN RefusedWith(out, "TransferFailed")
            ELSE /\ out.result = "ok"
                 /\ out.transfers = << <<to, amount>> >>
                 /\ out.post
                       = [Current EXCEPT
                            !.usdtBalance =
                                [usdtBalance EXCEPT ![Lottery] = @ - amount,
                                                    ![to] = @ + amount]]

\* C29: transferFunds(to, amount) by the admin moves exactly amount from
\* the escrow to `to` and changes no series, ticket owner, owner index,
\* counter, price or admin; with a null recipient or a token transfer that
\* fails (refused by the token, or above the escrow's balance) it is
\* rejected with nothing changed.
C29_TransferFundsFrame == []TransferFundsFrame

\* C29 witness: the owner has withdrawn 8.95 tokens of the 9.90 the escrow
\* held to bob; withdrawing them again is refused by the token, a
\* withdrawal to the null address is refused, and the rest can be
\* withdrawn.
C29_Witness ==
    /\ usdtBalance[Lottery] = (DRAW_THRESHOLD * InitialTicketPrice) - 895
    /\ usdtBalance["bob"] + usdtBalance["alice"] = (2 * InitialFunds) - usdtBalance[Lottery]
    /\ TransferFundsOutcome(owner, "bob", 895, TRUE).result = "TransferFailed"
    /\ TransferFundsOutcome(owner, NullAddress, 0, TRUE).result = "InvalidAddress"
    /\ TransferFundsOutcome(owner, "bob", usdtBalance[Lottery], TRUE).result = "ok"

\* C30: every drawn series can be settled: for a drawn series, not settled
\* yet, in which none of the 10 winning numbers was ever sold, the admin's
\* distributeRewards succeeds without a payout and sets rewardsDistributed,
\* so that no series stays drawn and unsettled for ever.
C30_ZeroWinnerSeriesSettles ==
    \A s \in SeriesIds :
        (/\ seriesInfo[s].drawExecuted
         /\ s \notin rewardsDistributed
         /\ SoldWinningNumbers(s) = << >>)
        => LET out == DistributeRewardsOutcome(owner, s, 0)
           IN  /\ out.result = "ok"
               /\ out.transfers = << >>
               /\ s \in out.post.rewardsDistributed

\* C31: the total amount one distributeRewards call transfers never exceeds
\* the pool of the series it settles, ticketsSold * ticketPrice, so that
\* settling a series never spends escrow that came from elsewhere.
C31_PayoutWithinPool ==
    \A s \in SeriesIds :
        LET out == DistributeRewardsOutcome(owner, s, 0)
        IN  out.result = "ok"
            => TotalOf(out.transfers) <= seriesInfo[s].ticketsSold * ticketPrice

\* C32: for a drawn series that is not settled and has at least one sold
\* winning ticket, distributeRewards by the admin succeeds whenever the
\* escrow holds at least ticketsSold * ticketPrice; a series whose escrow is
\* exactly what its own tickets were sold for can always be paid.
C32_FundedSeriesPayable ==
    \A s \in SeriesIds :
        (Funded(s) /\ SoldWinningNumbers(s) # << >>)
        => DistributeRewardsOutcome(owner, s, 0).result = "ok"

\* C33: setReward(newReward) by the admin sets rewardPerUser, the reward a
\* distribution pays per winner, to newReward and leaves ticketPrice as it
\* is; only setTicketPrice changes ticketPrice.
C33_SetRewardSetsReward ==
    \A newReward \in Prices :
        LET out == SetRewardOutcome(owner, newReward)
        IN  /\ out.result = "ok"
            /\ out.post.rewardPerUser = newReward
            /\ out.post.ticketPrice = ticketPrice

\* The addresses that own a sold winning ticket of series s.
WinningOwners(s) ==
    {OwnerOf(TicketId(s, SoldWinningNumbers(s)[i])) :
        i \in DOMAIN SoldWinningNumbers(s)}

\* C34: whenever a series becomes settled, every owner of one of its sold
\* winning tickets has received a strictly positive payment in that same
\* distribution: no series is marked settled with its winners paid nothing.
C34_SettledMeansPaid ==
    [][\A s \in SeriesIds :
          (s \in rewardsDistributed' /\ s \notin rewardsDistributed)
          => \A a \in WinningOwners(s) : usdtBalance'[a] > usdtBalance[a]]_vars

\* What an executeDraw call writes, for every caller, every series id from 0
\* to one past the last series and every seed: an accepted call moves no
\* token, mints nothing, and leaves the storage as it is but for the three
\* draw fields of the series it names; any other call is rejected.
ExecuteDrawFrame ==
    \A s \in {0} \cup WideSeriesIdInputs, caller \in Users,
       randomSeed \in WideSeeds \cup CollidingSeeds :
        LET out == ExecuteDrawOutcome(caller, s, randomSeed)
        IN  IF out.result = "ok"
            THEN /\ out.transfers = << >>
                 /\ out.ticketIds = << >>
                 /\ out.post = [Current EXCEPT !.seriesInfo = out.post.seriesInfo]
                 /\ DOMAIN out.post.seriesInfo = DOMAIN seriesInfo
                 /\ \A b \in SeriesIds \ {s} :
                       out.post.seriesInfo[b] = seriesInfo[b]
                 /\ out.post.seriesInfo[s]
                       = [seriesInfo[s] EXCEPT
                            !.drawExecuted = TRUE,
                            !.drawRandomSeed = randomSeed,
                            !.winningTicketNumbers =
                                out.post.seriesInfo[s].winningTicketNumbers]
            ELSE Rejected(out)

\* A step that draws a series leaves the balances and every storage
\* variable but seriesInfo as they were.
DrawStepFrame ==
    (\E s \in SeriesIds : seriesInfo'[s].drawExecuted /\ ~seriesInfo[s].drawExecuted)
    => UNCHANGED <<owner, usdtBalance, ticketPrice, ticketsSold,
                   totalSeriesCount, rewardPerUser, ticketBalances,
                   ticketOwners, ticketSeries, ownedTicketIds,
                   rewardsDistributed, received, purchases>>

\* C35: a successful executeDraw on series S changes only S's drawExecuted,
\* winningTicketNumbers and drawRandomSeed: it moves no token and changes no
\* ticket owner, no ticketsSold, no price, no admin and no other series; a
\* rejected executeDraw changes nothing.
C35_ExecuteDrawFrame == /\ []ExecuteDrawFrame
                        /\ [][DrawStepFrame]_vars

\* C35 witness: series 1 has been drawn with 90 tickets sold, after its
\* sales were withdrawn, while series 2 has 2 tickets sold and the escrow
\* holds their price; everything but the draw fields of series 1 is as the
\* purchases and the withdrawal left it, and a second draw of series 1, a
\* draw of series 2 and a draw by bob are rejected.
C35_Witness ==
    /\ totalSeriesCount = 2
    /\ seriesInfo[1].drawExecuted
    /\ seriesInfo[1].ticketsSold = DRAW_THRESHOLD
    /\ Len(seriesInfo[1].winningTicketNumbers) = WINNING_TICKETS_COUNT
    /\ seriesInfo[2].ticketsSold = 2
    /\ ~seriesInfo[2].drawExecuted
    /\ ticketsSold = DRAW_THRESHOLD + 2
    /\ usdtBalance[Lottery] = 2 * InitialTicketPrice
    /\ received = (DRAW_THRESHOLD + 2) * InitialTicketPrice
    /\ rewardsDistributed = {}
    /\ ExecuteDrawOutcome(owner, 1, 189).result = "DrawAlreadyExecuted"
    /\ ExecuteDrawOutcome(owner, 2, 189).result = "NotEnoughTicketsSold"
    /\ ExecuteDrawOutcome("bob", 1, 189).result = "NotOwner"

RECURSIVE SoldUpTo(_)
\* The sum of ticketsSold over the series 1 .. n.
SoldUpTo(n) == IF n = 0 THEN 0 ELSE seriesInfo[n].ticketsSold + SoldUpTo(n - 1)

\* The ticket ids whose owner is the address a.
OwnedBy(a) == {id \in DOMAIN ticketOwners : ticketOwners[id] = a}

\* The counters agree with the ledger: the global one with the series, and
\* every user's balance with its list and with the tickets it owns.
CountersConsistent ==
    /\ ticketsSold = SoldUpTo(totalSeriesCount)
    /\ \A a \in Users :
          /\ ticketBalances[a] = Len(ownedTicketIds[a])
          /\ Len(ownedTicketIds[a]) = Cardinality(OwnedBy(a))

RECURSIVE HeldBy(_)
\* The tokens the users of the set S hold together.
HeldBy(S) ==
    IF S = {} THEN 0
    ELSE LET a == CHOOSE x \in S : TRUE
         IN  usdtBalance[a] + HeldBy(S \ {a})

\* The tokens that have left the escrow: what the users hold beyond what
\* their purchases have left them of their initial funds.
PaidOut == (HeldBy(Users) + received) - (Cardinality(Users) * InitialFunds)

\* The escrow holds the charges of the purchases less what has left it.
EscrowBalanced ==
    /\ received = SumOver(purchases, "totalCost")
    /\ usdtBalance[Lottery] = received - PaidOut
    /\ PaidOut >= 0

\* What a step does to the escrow.  A purchase of count tickets takes
\* ticketPrice * count, at the price before the step, from its buyer and
\* adds it to the escrow.  A step that settles series s takes from the
\* escrow the reward of s once per sold winning ticket, and the users
\* receive it.  Any other step that changes the escrow is a withdrawal: the
\* escrow loses what a user receives and no ticket is sold.
EscrowStep ==
    LET escrow == usdtBalance[Lottery]
        escrowAfter == usdtBalance'[Lottery]
        heldAfter == (HeldBy(Users))'
    IN  IF PurchaseCommitted
        THEN LET p == purchases'[Len(purchases')]
             IN  /\ p.totalCost = ticketPrice * p.count
                 /\ escrowAfter = escrow + p.totalCost
                 /\ usdtBalance'[p.buyer] = usdtBalance[p.buyer] - p.totalCost
                 /\ received' = received + p.totalCost
                 /\ Cardinality(MintedNow) = p.count
        ELSE /\ received' = received
             /\ \A s \in SeriesIds :
                   (s \in rewardsDistributed' /\ s \notin rewardsDistributed)
                   => escrow - escrowAfter
                         = RewardPerWinner(seriesInfo[s])
                              * Len(SoldWinningNumbers(s))
             /\ escrowAfter <= escrow
             /\ heldAfter - HeldBy(Users) = escrow - escrowAfter
             /\ escrowAfter # escrow => ticketsSold' = ticketsSold

\* C37: escrow accounting: with tokens moving only through the contract's
\* own calls, a successful purchase of count tickets debits the buyer and
\* credits the escrow by exactly ticketPrice * count at the price in force
\* when the purchase commits, and at all times the escrow balance equals the
\* sum of all such charges minus all reward transfers and withdrawals.
C37_EscrowAccounting == /\ []EscrowBalanced
                        /\ [][EscrowStep]_vars

\* C37 witness: 90 tickets were bought at 0.11, 8.95 tokens were withdrawn,
\* and the distribution has paid 9 winners 0.09 each out of the 0.95 left:
\* the escrow holds 9.90 - 8.95 - 0.81 = 0.14 tokens.
C37_Witness ==
    /\ received = DRAW_THRESHOLD * InitialTicketPrice
    /\ rewardsDistributed = {1}
    /\ PaidOut = 895 + 81
    /\ usdtBalance[Lottery] = 14

====
